---------------------------- MODULE Spec2Model ----------------------------
(***************************************************************************)
(* Amazons decision engine (RizzoHou/amazing-amazons, src/bots).           *)
(*                                                                         *)
(* The board is the 8x8 grid of the source, held as a function of the      *)
(* 64 cell indices row * 8 + col (the layout of bot021/bot026; the         *)
(* grid[row][col] of bot001/bot012 is the same map).  A Move is the        *)
(* record of the six coordinates of the source's struct Move.              *)
(***************************************************************************)
EXTENDS Integers, Sequences, FiniteSets, TLC

VARIABLES
    bot,      \* which program of the repository is running
    board,    \* the Board under test / the Board of main (root_state)
    color,    \* the side the generator is asked about / the side to move /
              \* my_color (root_player)
    pc,       \* position of the program
    out,      \* the value returned by the operation that ran last
    prev,     \* the Board before the last apply_move
    last,     \* the Move applied last
    ply,      \* number of moves applied since Init
    node_pool,          \* bot021: MCTSNode node_pool[], the slots written
    node_pool_ptr,      \* bot021: int node_pool_ptr
    move_pool,          \* bot021: Move move_pool[], the slots written
    move_pool_ptr,      \* bot021: int move_pool_ptr
    root,               \* MCTSNode* root (0 is nullptr)
    iterations,         \* int iterations of the running search
    allow_expand,       \* bot021: bool allow_expand
    best_child_global,  \* bot021: MCTSNode* best_child_global
    max_visits_global,  \* bot021: int max_visits_global
    timeup,             \* steady_clock::now() >= deadline
    it,                 \* what the last iteration did (history variable)
    late,               \* iterations started since the deadline passed
    frame,              \* bot012: the locals of the iteration under way
    turn_number,        \* the move number the evaluator is given
    scratch             \* the static buffers of the evaluator

gameVars == <<board, color, prev, last, ply>>
poolVars == <<node_pool, node_pool_ptr, move_pool, move_pool_ptr>>
searchVars == <<root, iterations, allow_expand, best_child_global,
                max_visits_global, timeup, it, late, frame>>

evalVars == <<turn_number, scratch>>

vars == <<bot, pc, out, gameVars, poolVars, searchVars, evalVars>>

(***************************************************************************)
(* Program constants                                                       *)
(***************************************************************************)
GRID_SIZE == 8
NUM_SQUARES == 64
EMPTY == 0
BLACK == 1
WHITE == -1
OBSTACLE == 2

Cells == 0 .. (NUM_SQUARES - 1)
Sides == {BLACK, WHITE}

\* bot001 / bot012 / bot018: row-major order of the eight directions
DIRECTIONS_001 ==
    << <<-1, -1>>, <<-1, 0>>, <<-1, 1>>,
       <<0, -1>>,             <<0, 1>>,
       <<1, -1>>,  <<1, 0>>,  <<1, 1>> >>

\* bot021 / bot026: N, S, W, E, NW, NE, SW, SE
DIRECTIONS_021 ==
    << <<-1, 0>>, <<1, 0>>, <<0, -1>>, <<0, 1>>,
       <<-1, -1>>, <<-1, 1>>, <<1, -1>>, <<1, 1>> >>

Move(a, b, c, d, e, f) ==
    [x0 |-> a, y0 |-> b, x1 |-> c, y1 |-> d, x2 |-> e, y2 |-> f]

NoMove == Move(-1, -1, -1, -1, -1, -1)

(***************************************************************************)
(* Board                                                                   *)
(***************************************************************************)
EmptyGrid == [i \in Cells |-> EMPTY]

init_board ==
    [i \in Cells |->
        IF i \in {0 * 8 + 2, 2 * 8 + 0, 5 * 8 + 0, 7 * 8 + 2} THEN BLACK
        ELSE IF i \in {0 * 8 + 5, 2 * 8 + 7, 5 * 8 + 7, 7 * 8 + 5} THEN WHITE
        ELSE EMPTY]

is_valid(x, y) == x >= 0 /\ x < GRID_SIZE /\ y >= 0 /\ y < GRID_SIZE

\* the three writes in another order, the obstacle first
apply_move_ObstacleFirst(grid, m) ==
    LET p_idx == m.x0 * 8 + m.y0
        t_idx == m.x1 * 8 + m.y1
        s_idx == m.x2 * 8 + m.y2
        piece == grid[p_idx]
        g1 == [grid EXCEPT ![s_idx] = OBSTACLE]
        g2 == [g1 EXCEPT ![p_idx] = EMPTY]
    IN  [g2 EXCEPT ![t_idx] = piece]

apply_move(grid, m) ==
    LET p_idx == m.x0 * 8 + m.y0
        t_idx == m.x1 * 8 + m.y1
        s_idx == m.x2 * 8 + m.y2
        piece == grid[p_idx]
        g1 == [grid EXCEPT ![p_idx] = EMPTY]
        g2 == [g1 EXCEPT ![t_idx] = piece]
    IN  [g2 EXCEPT ![s_idx] = OBSTACLE]

(***************************************************************************)
(* Move generator of bot001 (the same loops in bot012 and bot018): a       *)
(* vector filled in enumeration order.                                     *)
(***************************************************************************)
\* the arrow ray stopped by every non-Empty cell, the vacated source included
RECURSIVE ArrowRay_001_SourceBlocks(_, _, _, _, _, _, _, _)
ArrowRay_001_SourceBlocks(grid, px, py, nx, ny, ad, ax, ay) ==
    IF ~is_valid(ax, ay) THEN <<>>
    ELSE IF grid[ax * 8 + ay] # EMPTY THEN <<>>
    ELSE <<Move(px, py, nx, ny, ax, ay)>> \o
         ArrowRay_001_SourceBlocks(grid, px, py, nx, ny, ad,
                      ax + DIRECTIONS_001[ad][1], ay + DIRECTIONS_001[ad][2])

RECURSIVE ArrowRay_001(_, _, _, _, _, _, _, _)
ArrowRay_001(grid, px, py, nx, ny, ad, ax, ay) ==
    IF ~is_valid(ax, ay) THEN <<>>
    ELSE IF grid[ax * 8 + ay] # EMPTY /\ ~(ax = px /\ ay = py) THEN <<>>
    ELSE <<Move(px, py, nx, ny, ax, ay)>> \o
         ArrowRay_001(grid, px, py, nx, ny, ad,
                      ax + DIRECTIONS_001[ad][1], ay + DIRECTIONS_001[ad][2])

RECURSIVE Arrows_001(_, _, _, _, _, _)
Arrows_001(grid, px, py, nx, ny, ad) ==
    IF ad > 8 THEN <<>>
    ELSE ArrowRay_001(grid, px, py, nx, ny, ad,
                      nx + DIRECTIONS_001[ad][1], ny + DIRECTIONS_001[ad][2])
         \o Arrows_001(grid, px, py, nx, ny, ad + 1)

RECURSIVE SlideRay_001(_, _, _, _, _, _)
SlideRay_001(grid, px, py, d, nx, ny) ==
    IF is_valid(nx, ny) /\ grid[nx * 8 + ny] = EMPTY
    THEN Arrows_001(grid, px, py, nx, ny, 1) \o
         SlideRay_001(grid, px, py, d,
                      nx + DIRECTIONS_001[d][1], ny + DIRECTIONS_001[d][2])
    ELSE <<>>

RECURSIVE PieceDirs_001(_, _, _, _)
PieceDirs_001(grid, px, py, d) ==
    IF d > 8 THEN <<>>
    ELSE SlideRay_001(grid, px, py, d,
                      px + DIRECTIONS_001[d][1], py + DIRECTIONS_001[d][2])
         \o PieceDirs_001(grid, px, py, d + 1)

\* the cells the loop over the grid does not skip, in loop order
PieceCells(grid, c) ==
    SelectSeq([i \in 1 .. NUM_SQUARES |-> i - 1], LAMBDA p : grid[p] = c)

RECURSIVE Pieces_001(_, _, _)
Pieces_001(grid, ps, i) ==
    IF i > Len(ps) THEN <<>>
    ELSE PieceDirs_001(grid, ps[i] \div GRID_SIZE, ps[i] % GRID_SIZE, 1)
         \o Pieces_001(grid, ps, i + 1)

get_legal_moves_001(grid, c) == Pieces_001(grid, PieceCells(grid, c), 1)

(***************************************************************************)
(* Move generator of bot021: moves are emplaced in the global move pool    *)
(* from move_pool_ptr on; every loop carries the guard count < cap, and a  *)
(* full pool returns from the function at once.  acc.moves is the part of  *)
(* the pool written by this call (count = Len(acc.moves)), acc.ret says    *)
(* that the function has returned from inside the loops.                   *)
(*                                                                         *)
(* The capacities are scaled down so that exhaustion is reached by the     *)
(* model checker (bot021.cpp:31-32, 72-73: 300, 1000, 250000, 1800000).    *)
(* As in the source, the move pool can fill up while allow_expand is still *)
(* set: CHECK_PERIOD expansions of MAX_MOVES_PER_NODE moves pass the       *)
(* margin MOVE_SLACK (256 * 300 > 5000 there).                             *)
(***************************************************************************)
MAX_MOVES_PER_NODE == 2
MAX_MOVES_FOR_ROOT_NODE == 3
MAX_NODES == 6
MAX_MOVES_POOL == 7

\* the arrow loop without the test move_pool_ptr < MAX_MOVES_POOL
RECURSIVE ArrowLoop_021_NoPoolTest(_, _, _, _, _, _, _, _, _, _)
ArrowLoop_021_NoPoolTest(grid, p, cap, start, nx, ny, ad, ax0, ay0, acc) ==
    IF acc.ret \/ ~(Len(acc.moves) < cap) THEN acc
    ELSE LET ax == ax0 + DIRECTIONS_021[ad][1]
             ay == ay0 + DIRECTIONS_021[ad][2]
             a_idx == ax * 8 + ay
         IN  IF ax < 0 \/ ax >= 8 \/ ay < 0 \/ ay >= 8 THEN acc
             ELSE IF grid[a_idx] # EMPTY /\ a_idx # p THEN acc
             ELSE ArrowLoop_021_NoPoolTest(grid, p, cap, start, nx, ny, ad, ax, ay,
                      [acc EXCEPT !.moves =
                          Append(@, Move(p \div 8, p % 8, nx, ny, ax, ay))])

RECURSIVE ArrowLoop_021(_, _, _, _, _, _, _, _, _, _)
ArrowLoop_021(grid, p, cap, start, nx, ny, ad, ax0, ay0, acc) ==
    IF acc.ret \/ ~(Len(acc.moves) < cap) THEN acc
    ELSE LET ax == ax0 + DIRECTIONS_021[ad][1]
             ay == ay0 + DIRECTIONS_021[ad][2]
             a_idx == ax * 8 + ay
         IN  IF ax < 0 \/ ax >= 8 \/ ay < 0 \/ ay >= 8 THEN acc
             ELSE IF grid[a_idx] # EMPTY /\ a_idx # p THEN acc
             ELSE IF start + Len(acc.moves) < MAX_MOVES_POOL
                  THEN ArrowLoop_021(grid, p, cap, start, nx, ny, ad, ax, ay,
                           [acc EXCEPT !.moves =
                               Append(@, Move(p \div 8, p % 8, nx, ny, ax, ay))])
                  ELSE [acc EXCEPT !.ret = TRUE]

RECURSIVE ArrowDirs_021(_, _, _, _, _, _, _, _)
ArrowDirs_021(grid, p, cap, start, nx, ny, ad, acc) ==
    IF ad > 8 \/ acc.ret \/ ~(Len(acc.moves) < cap) THEN acc
    ELSE ArrowDirs_021(grid, p, cap, start, nx, ny, ad + 1,
             ArrowLoop_021(grid, p, cap, start, nx, ny, ad, nx, ny, acc))

RECURSIVE SlideLoop_021(_, _, _, _, _, _, _, _)
SlideLoop_021(grid, p, cap, start, d, nx0, ny0, acc) ==
    IF acc.ret \/ ~(Len(acc.moves) < cap) THEN acc
    ELSE LET nx == nx0 + DIRECTIONS_021[d][1]
             ny == ny0 + DIRECTIONS_021[d][2]
         IN  IF nx < 0 \/ nx >= 8 \/ ny < 0 \/ ny >= 8 THEN acc
             ELSE IF grid[nx * 8 + ny] # EMPTY THEN acc
             ELSE SlideLoop_021(grid, p, cap, start, d, nx, ny,
                      ArrowDirs_021(grid, p, cap, start, nx, ny, 1, acc))

RECURSIVE PieceDirs_021(_, _, _, _, _, _)
PieceDirs_021(grid, p, cap, start, d, acc) ==
    IF d > 8 \/ acc.ret \/ ~(Len(acc.moves) < cap) THEN acc
    ELSE PieceDirs_021(grid, p, cap, start, d + 1,
             SlideLoop_021(grid, p, cap, start, d, p \div 8, p % 8, acc))

\* the piece loop with the cap counted for each piece apart
RECURSIVE Pieces_021_CapPerPiece(_, _, _, _, _, _)
Pieces_021_CapPerPiece(grid, ps, cap, start, i, acc) ==
    IF i > Len(ps) \/ acc.ret THEN acc
    ELSE Pieces_021_CapPerPiece(grid, ps, cap, start, i + 1,
             PieceDirs_021(grid, ps[i], cap + Len(acc.moves), start, 1, acc))

RECURSIVE Pieces_021(_, _, _, _, _, _)
Pieces_021(grid, ps, cap, start, i, acc) ==
    IF i > Len(ps) \/ acc.ret \/ ~(Len(acc.moves) < cap) THEN acc
    ELSE Pieces_021(grid, ps, cap, start, i + 1,
             PieceDirs_021(grid, ps[i], cap, start, 1, acc))

\* the moves written to move_pool[ptr ..]: out_start_idx = ptr and
\* out_count = Len of the result
get_legal_moves_021(grid, c, ptr, cap) ==
    Pieces_021(grid, PieceCells(grid, c), cap, ptr, 1,
               [moves |-> <<>>, ret |-> FALSE]).moves

(***************************************************************************)
(* Move generator of bot026: the same loops without a cap; a full pool     *)
(* breaks out of the innermost loop only.  moves is the part of the pool   *)
(* written so far by this call.  Once the pool is full no later ray        *)
(* writes anything, so the outer loops return the pool as it stands.       *)
(***************************************************************************)
MAX_MOVES_POOL_026 == 70000000

RECURSIVE ArrowLoop_026(_, _, _, _, _, _, _, _, _)
ArrowLoop_026(grid, p, start, nx, ny, ad, ax0, ay0, moves) ==
    LET ax == ax0 + DIRECTIONS_021[ad][1]
        ay == ay0 + DIRECTIONS_021[ad][2]
        a_idx == ax * 8 + ay
    IN  IF ax < 0 \/ ax >= 8 \/ ay < 0 \/ ay >= 8 THEN moves
        ELSE IF grid[a_idx] # EMPTY /\ a_idx # p THEN moves
        ELSE IF start + Len(moves) < MAX_MOVES_POOL_026
             THEN ArrowLoop_026(grid, p, start, nx, ny, ad, ax, ay,
                      Append(moves, Move(p \div 8, p % 8, nx, ny, ax, ay)))
             ELSE moves

RECURSIVE ArrowDirs_026(_, _, _, _, _, _, _)
ArrowDirs_026(grid, p, start, nx, ny, ad, moves) ==
    IF ~(start + Len(moves) < MAX_MOVES_POOL_026) \/ ad > 8 THEN moves
    ELSE ArrowDirs_026(grid, p, start, nx, ny, ad + 1,
             ArrowLoop_026(grid, p, start, nx, ny, ad, nx, ny, moves))

RECURSIVE SlideLoop_026(_, _, _, _, _, _, _)
SlideLoop_026(grid, p, start, d, nx0, ny0, moves) ==
    LET nx == nx0 + DIRECTIONS_021[d][1]
        ny == ny0 + DIRECTIONS_021[d][2]
    IN  IF ~(start + Len(moves) < MAX_MOVES_POOL_026) THEN moves
        ELSE IF nx < 0 \/ nx >= 8 \/ ny < 0 \/ ny >= 8 THEN moves
        ELSE IF grid[nx * 8 + ny] # EMPTY THEN moves
        ELSE SlideLoop_026(grid, p, start, d, nx, ny,
                 ArrowDirs_026(grid, p, start, nx, ny, 1, moves))

RECURSIVE PieceDirs_026(_, _, _, _, _)
PieceDirs_026(grid, p, start, d, moves) ==
    IF ~(start + Len(moves) < MAX_MOVES_POOL_026) \/ d > 8 THEN moves
    ELSE PieceDirs_026(grid, p, start, d + 1,
             SlideLoop_026(grid, p, start, d, p \div 8, p % 8, moves))

RECURSIVE Pieces_026(_, _, _, _, _)
Pieces_026(grid, ps, start, i, moves) ==
    IF ~(start + Len(moves) < MAX_MOVES_POOL_026) \/ i > Len(ps) THEN moves
    ELSE Pieces_026(grid, ps, start, i + 1,
             PieceDirs_026(grid, ps[i], start, 1, moves))

get_legal_moves_026(grid, c, ptr) ==
    Pieces_026(grid, PieceCells(grid, c), ptr, 1, <<>>)

(***************************************************************************)
(* Legality, stated independently of the generators' loops: a slide from   *)
(* one cell to another follows one of the eight lines, and every cell on   *)
(* the way, the target included, is Empty or is the vacated cell vac.      *)
(***************************************************************************)
Row(i) == i \div 8
Col(i) == i % 8
Abs(n) == IF n < 0 THEN -n ELSE n
Sgn(n) == IF n < 0 THEN -1 ELSE IF n > 0 THEN 1 ELSE 0

Slides(grid, from, to, vac) ==
    LET dr == Row(to) - Row(from)
        dc == Col(to) - Col(from)
        k  == IF Abs(dr) > Abs(dc) THEN Abs(dr) ELSE Abs(dc)
    IN  /\ from # to
        /\ dr = 0 \/ dc = 0 \/ Abs(dr) = Abs(dc)
        /\ \A j \in 1 .. k :
              LET c == (Row(from) + j * Sgn(dr)) * 8 + (Col(from) + j * Sgn(dc))
              IN  grid[c] = EMPTY \/ c = vac

LegalMoves(grid, c) ==
    UNION { UNION { { Move(Row(p), Col(p), Row(t), Col(t), Row(s), Col(s)) :
                        s \in {s \in Cells : Slides(grid, t, s, p)} } :
                    t \in {t \in Cells : Slides(grid, p, t, -1)} } :
            p \in {p \in Cells : grid[p] = c} }

SeqToSet(s) == {s[i] : i \in 1 .. Len(s)}
NoDuplicates(s) == \A i, j \in 1 .. Len(s) : i # j => s[i] # s[j]

(***************************************************************************)
(* SpecGen: the generators as pure functions of (board, side).  The boards *)
(* are all boards whose cells are Obstacles except for at most MaxOpen     *)
(* cells of one 3x3 corner block (top-left or bottom-right, so that all    *)
(* four edges of the grid are met), each of them Empty or a piece.         *)
(***************************************************************************)
MaxOpen == 3

CornerBlocks ==
    { {0, 1, 2, 8, 9, 10, 16, 17, 18}, {45, 46, 47, 53, 54, 55, 61, 62, 63} }

OpenSets == UNION { {S \in SUBSET W : Cardinality(S) <= MaxOpen} : W \in CornerBlocks }

\* the board that is Obstacles outside S and f on S
GenBoard(S, f) == [i \in Cells |-> IF i \in S THEN f[i] ELSE OBSTACLE]

\* the state of a program that holds no search tree
NoIteration == [kind |-> "none"]
NoFrame == [node |-> 0]

\* the static buffers at program start: static storage is zero-initialized
\* and the static vectors are empty
ZeroScratch ==
    [dist_my |-> [i \in Cells |-> 0], dist_op |-> [i \in Cells |-> 0],
     bfs_queue |-> [i \in Cells |-> 0], head |-> 0, tail |-> 0,
     my_pieces |-> <<>>, opp_pieces |-> <<>>]

NoSearch ==
    /\ node_pool = <<>>
    /\ node_pool_ptr = 0
    /\ move_pool = <<>>
    /\ move_pool_ptr = 0
    /\ root = 0
    /\ iterations = 0
    /\ allow_expand = TRUE
    /\ best_child_global = 0
    /\ max_visits_global = -1
    /\ timeup = FALSE
    /\ it = NoIteration
    /\ late = 0
    /\ frame = NoFrame
    /\ turn_number = 0
    /\ scratch = ZeroScratch

InitGen ==
    /\ bot = "gen"
    /\ \E S \in OpenSets : \E f \in [S -> {EMPTY, BLACK, WHITE}] :
          board = GenBoard(S, f)
    /\ color \in Sides
    /\ pc = "input"
    /\ out = <<>>
    /\ prev = EmptyGrid
    /\ last = NoMove
    /\ ply = 0
    /\ NoSearch

Gen_001 ==
    /\ bot = "gen" /\ pc = "input"
    /\ out' = get_legal_moves_001(board, color)
    /\ pc' = "moves_001"
    /\ UNCHANGED <<bot, evalVars, gameVars, poolVars, searchVars>>

Gen_026 ==
    /\ bot = "gen" /\ pc = "input"
    /\ out' = get_legal_moves_026(board, color, 0)
    /\ pc' = "moves_026"
    /\ UNCHANGED <<bot, evalVars, gameVars, poolVars, searchVars>>

NextGen == Gen_001 \/ Gen_026

SpecGen == InitGen /\ [][NextGen]_vars

\* C1: for every board and side the uncapped generator (the vector of
\* bot001, the pool of bot026 with room left) returns exactly the set of
\* legal (source, destination, obstacle) triples, each of them once.
C1_GeneratorExact ==
    pc \in {"moves_001", "moves_026"} =>
        /\ SeqToSet(out) = LegalMoves(board, color)
        /\ NoDuplicates(out)

\* a result holding a move that shoots back onto the vacated source and a
\* move that shoots across it
C1_Witness ==
    /\ pc \in {"moves_001", "moves_026"}
    /\ \E i, j \in 1 .. Len(out) :
          /\ out[i].x2 = out[i].x0 /\ out[i].y2 = out[i].y0
          /\ out[j].x0 = out[i].x0 /\ out[j].y0 = out[i].y0
          /\ out[j].x1 = out[i].x1 /\ out[j].y1 = out[i].y1
          /\ 2 * out[j].x0 = out[j].x1 + out[j].x2
          /\ 2 * out[j].y0 = out[j].y1 + out[j].y2


(***************************************************************************)
(* SpecGame: a game played from the start position; the side to move plays *)
(* any of the moves the generator of bot021 writes for it into an empty    *)
(* move pool when the cap is the pool size, applied by apply_move.         *)
(***************************************************************************)
MaxPly == 3

InitGame ==
    /\ bot = "game"
    /\ board = init_board
    /\ color = BLACK
    /\ pc = "play"
    /\ out = <<>>
    /\ prev = init_board
    /\ last = NoMove
    /\ ply = 0
    /\ NoSearch

Play ==
    /\ bot = "game" /\ pc = "play"
    /\ ply < MaxPly
    /\ \E moves \in {get_legal_moves_021(board, color, 0, MAX_MOVES_POOL)} :
          /\ out' = moves
          /\ \E i \in 1 .. Len(moves) :
                /\ last' = moves[i]
                /\ board' = apply_move(board, moves[i])
    /\ prev' = board
    /\ color' = -color
    /\ ply' = ply + 1
    /\ UNCHANGED <<bot, evalVars, pc, poolVars, searchVars>>

NextGame == Play

SpecGame == InitGame /\ [][NextGame]_vars

Count(grid, v) == Cardinality({i \in Cells : grid[i] = v})
Changed(g, h) == {i \in Cells : g[i] # h[i]}
Turned(g, h, v, w) == {i \in Cells : g[i] = v /\ h[i] = w}

\* the three-cell effect of a move of side mover that took g to h
ThreeCells(g, h, mover) ==
    /\ Cardinality(Changed(g, h)) = 3
    /\ Cardinality(Turned(g, h, mover, EMPTY)) = 1
    /\ Cardinality(Turned(g, h, EMPTY, mover)) = 1
    /\ Cardinality(Turned(g, h, EMPTY, OBSTACLE)) = 1

PiecesAndObstaclesKept(g, h) ==
    /\ Count(h, BLACK) = 4
    /\ Count(h, WHITE) = 4
    /\ \A i \in Cells : g[i] = OBSTACLE => h[i] = OBSTACLE

OnSource(m) == m.x2 = m.x0 /\ m.y2 = m.y0

\* C2 as stated: every generated move, applied, turns one piece cell Empty,
\* one Empty cell into that piece and one Empty cell into an Obstacle; each
\* side keeps 4 pieces and no Obstacle changes.
C2_EveryMoveThreeCells ==
    ply > 0 => /\ ThreeCells(prev, board, -color)
               /\ PiecesAndObstaclesKept(prev, board)

\* C2 amended: the three-cell effect holds for every generated move whose
\* obstacle is not shot onto the vacated source; a move that shoots onto its
\* own source changes two cells only: the source goes from piece to
\* Obstacle and the destination from Empty to that piece.  Each side keeps
\* 4 pieces and no Obstacle ever changes.
C2_MoveEffect ==
    ply > 0 =>
        /\ IF OnSource(last)
           THEN /\ Changed(prev, board) =
                       {last.x0 * 8 + last.y0, last.x1 * 8 + last.y1}
                /\ prev[last.x0 * 8 + last.y0] = -color
                /\ board[last.x0 * 8 + last.y0] = OBSTACLE
                /\ prev[last.x1 * 8 + last.y1] = EMPTY
                /\ board[last.x1 * 8 + last.y1] = -color
           ELSE ThreeCells(prev, board, -color)
        /\ PiecesAndObstaclesKept(prev, board)

\* both kinds of move have been played, the second after an earlier
\* obstacle was placed
C2_Witness ==
    /\ ply >= 2
    /\ OnSource(last)
    /\ \E i \in Cells : prev[i] = OBSTACLE /\ i # last.x0 * 8 + last.y0


(***************************************************************************)
(* bot021: the arena search.                                               *)
(*                                                                         *)
(* A node pointer is the 1-based position of the node in node_pool, 0 is   *)
(* nullptr.  wins and win_prob are fixed-point numbers with ONE for 1.0f.  *)
(* The thresholds of the loop are scaled with the capacities               *)
(* (bot021.cpp:403 and 407: every 256 iterations, 500 nodes, 5000 moves);  *)
(* the scaling keeps CHECK_PERIOD <= NODE_SLACK and                        *)
(* MAX_MOVES_PER_NODE < MOVE_SLACK < CHECK_PERIOD * MAX_MOVES_PER_NODE and *)
(* MAX_MOVES_FOR_ROOT_NODE <= MAX_MOVES_POOL - MOVE_SLACK as in the source.*)
(***************************************************************************)
CHECK_PERIOD == 3
NODE_SLACK == 3
MOVE_SLACK == 3
ONE == 2
MaxIter == 5

\* evaluate() ends in fast_sigmoid of a finite number: a value strictly
\* between 0 and 1.  The model lets it be any such fixed-point value.
EvalValues == 1 .. (ONE - 1)

\* init() that leaves the parent link null
NodeInit_021_NoParent(p, m, pjm) ==
    [parent |-> 0, first_child |-> 0, next_sibling |-> 0, move |-> m,
     moves_start_idx |-> -1, moves_count |-> 0, wins |-> 0, visits |-> 0,
     player_just_moved |-> pjm, moves_generated |-> FALSE]

NodeInit_021(p, m, pjm) ==
    [parent |-> p, first_child |-> 0, next_sibling |-> 0, move |-> m,
     moves_start_idx |-> -1, moves_count |-> 0, wins |-> 0, visits |-> 0,
     player_just_moved |-> pjm, moves_generated |-> FALSE]

\* arr[idx] = v for a 0-based idx into an array whose written slots are arr
WriteAt(arr, idx, v) ==
    IF idx < Len(arr) THEN [arr EXCEPT ![idx + 1] = v] ELSE Append(arr, v)

WriteSeq(arr, idx, vs) ==
    SubSeq(arr, 1, idx) \o vs \o SubSeq(arr, idx + Len(vs) + 1, Len(arr))

new_node(pool, ptr, p, m, pjm) ==
    IF ptr >= MAX_NODES
    THEN [ret |-> 0, pool |-> pool, ptr |-> ptr]
    ELSE [ret |-> ptr + 1,
          pool |-> WriteAt(pool, ptr, NodeInit_021(p, m, pjm)),
          ptr |-> ptr + 1]

RECURSIVE SiblingList(_, _)
SiblingList(pool, c) ==
    IF c = 0 THEN <<>> ELSE <<c>> \o SiblingList(pool, pool[c].next_sibling)

Children_021(pool, n) == SiblingList(pool, pool[n].first_child)

\* The children uct_select_child may return.  The UCB score is a finite
\* floating-point number above -1e9 for every child (visits + 1e-6f > 0,
\* log_v >= 0), so the result is one of the children; the model allows any.
uct_select_child_021(pool, n) == SeqToSet(Children_021(pool, n))

add_child(pool, n, child) ==
    [pool EXCEPT ![child].next_sibling = pool[n].first_child,
                 ![n].first_child = child]

is_terminal(node) ==
    node.moves_generated /\ node.moves_count = 0 /\ node.first_child = 0

is_fully_expanded(node) == node.moves_generated /\ node.moves_count = 0

\* the selection loop: every (node, state, current_player) it can end in
RECURSIVE Select_021(_, _, _, _)
Select_021(pool, n, state, cp) ==
    IF is_fully_expanded(pool[n]) /\ pool[n].first_child # 0
    THEN UNION { Select_021(pool, c, apply_move(state, pool[c].move), -cp) :
                 c \in uct_select_child_021(pool, n) }
    ELSE { [node |-> n, state |-> state, cp |-> cp] }

\* the score of a terminal node attributed to the side to move
TerminalScore_Swapped(node, root_player) ==
    IF node.player_just_moved = root_player THEN 0 ELSE ONE

\* win_prob of a terminal node met again by selection (bot021.cpp:429)
TerminalScore(node, root_player) ==
    IF node.player_just_moved = root_player THEN ONE ELSE 0

\* win_prob of a new node whose move list is empty (bot021.cpp:456)
StuckScore(current_player, root_player) ==
    IF current_player = root_player THEN 0 ELSE ONE

\* the expansion branch, bot021.cpp:434-462
Expand_021(pool, ptr, mpool, mptr, n, state, cp, offset, root_player) ==
    LET idx == pool[n].moves_start_idx + offset
        m == mpool[idx + 1]
        last_idx == pool[n].moves_start_idx + pool[n].moves_count - 1
        mpool1 == [mpool EXCEPT ![idx + 1] = mpool[last_idx + 1],
                                ![last_idx + 1] = mpool[idx + 1]]
        pool1 == [pool EXCEPT ![n].moves_count = @ - 1]
        state1 == apply_move(state, m)
        cp1 == -cp
        nn == new_node(pool1, ptr, n, m, -cp1)
    IN  IF nn.ret # 0
        THEN LET gen == get_legal_moves_021(state1, cp1, mptr, MAX_MOVES_PER_NODE)
                 pool2 == [nn.pool EXCEPT ![nn.ret].moves_start_idx = mptr,
                                          ![nn.ret].moves_count = Len(gen),
                                          ![nn.ret].moves_generated = TRUE]
                 stuck == Len(gen) = 0
             IN  [pool |-> add_child(pool2, n, nn.ret), ptr |-> nn.ptr,
                  mpool |-> WriteSeq(mpool1, mptr, gen),
                  mptr |-> mptr + Len(gen),
                  node |-> nn.ret, state |-> state1, cp |-> cp1,
                  terminal |-> stuck,
                  win_prob |-> IF stuck THEN StuckScore(cp1, root_player) ELSE 0,
                  kind |-> "expanded"]
        ELSE [pool |-> pool1, ptr |-> ptr, mpool |-> mpool1, mptr |-> mptr,
              node |-> n, state |-> state1, cp |-> cp1,
              terminal |-> FALSE, win_prob |-> 0, kind |-> "oom"]

\* selection result sel, then bot021.cpp:423-464
Step_021(pool, ptr, mpool, mptr, sel, allow, offset, root_player) ==
    IF is_terminal(pool[sel.node])
    THEN [pool |-> pool, ptr |-> ptr, mpool |-> mpool, mptr |-> mptr,
          node |-> sel.node, state |-> sel.state, cp |-> sel.cp,
          terminal |-> TRUE,
          win_prob |-> TerminalScore(pool[sel.node], root_player),
          kind |-> "terminal"]
    ELSE IF allow /\ pool[sel.node].moves_count > 0
    THEN Expand_021(pool, ptr, mpool, mptr, sel.node, sel.state, sel.cp,
                    offset, root_player)
    ELSE [pool |-> pool, ptr |-> ptr, mpool |-> mpool, mptr |-> mptr,
          node |-> sel.node, state |-> sel.state, cp |-> sel.cp,
          terminal |-> FALSE, win_prob |-> 0, kind |-> "unexpanded"]

\* a loop that counts the visit at the node the iteration ended in only
Backprop_021_LeafOnly(t, n, win_prob, root_player, rt) ==
    IF n = 0 THEN t
    ELSE LET node == t.pool[n]
             v == node.visits + 1
             better == node.parent = rt /\ v > t.maxv
             w == IF node.player_just_moved = root_player
                  THEN node.wins + win_prob
                  ELSE node.wins + (ONE - win_prob)
         IN  [pool |-> [t.pool EXCEPT ![n].visits = v, ![n].wins = w],
              best |-> IF better THEN n ELSE t.best,
              maxv |-> IF better THEN v ELSE t.maxv]

\* backpropagation, bot021.cpp:474-488; t carries the pool and the tracked
\* best child
RECURSIVE Backprop_021(_, _, _, _, _)
Backprop_021(t, n, win_prob, root_player, rt) ==
    IF n = 0 THEN t
    ELSE LET node == t.pool[n]
             v == node.visits + 1
             better == node.parent = rt /\ v > t.maxv
             w == IF node.player_just_moved = root_player
                  THEN node.wins + win_prob
                  ELSE node.wins + (ONE - win_prob)
         IN  Backprop_021(
                 [pool |-> [t.pool EXCEPT ![n].visits = v, ![n].wins = w],
                  best |-> IF better THEN n ELSE t.best,
                  maxv |-> IF better THEN v ELSE t.maxv],
                 node.parent, win_prob, root_player, rt)

\* the queens on their start squares, at most MaxEmpty Empty cells among the
\* four cells (0,3), (0,4), (1,3), (1,4) between the black queen at (0,2)
\* and the white queen at (0,5), Obstacles everywhere else: the end of a
\* game
MaxEmpty == 4
Region == {3, 4, 11, 12}

RootBoard(E) ==
    [i \in Cells |-> IF init_board[i] # EMPTY THEN init_board[i]
                     ELSE IF i \in E THEN EMPTY ELSE OBSTACLE]

Init021 ==
    /\ bot = "bot021"
    /\ \E E \in SUBSET Region :
          /\ Cardinality(E) <= MaxEmpty
          /\ board = RootBoard(E)
    /\ color \in Sides
    /\ pc = "main"
    /\ out = NoMove
    /\ prev = board
    /\ last = NoMove
    /\ ply = 0
    /\ NoSearch

\* a deadline test made at every second multiple of the period only
time_check_Sparse(iters, tu) == iters % (2 * CHECK_PERIOD) = 0 /\ tu

\* the test at the head of the loop, bot021.cpp:403-404: the clock is read
\* when the low bits of the iteration count are zero
time_check(iters, tu) == iters % CHECK_PERIOD = 0 /\ tu

\* the pool test made at the head of every iteration
expansion_allowed_EveryIteration(iters, nptr, mptr, allow) ==
    IF \/ nptr > MAX_NODES - NODE_SLACK
       \/ mptr > MAX_MOVES_POOL - MOVE_SLACK
    THEN FALSE ELSE allow

\* allow_expand after the pool test at the head of the loop,
\* bot021.cpp:403-410
expansion_allowed(iters, nptr, mptr, allow) ==
    IF /\ iters % CHECK_PERIOD = 0
       /\ \/ nptr > MAX_NODES - NODE_SLACK
          \/ mptr > MAX_MOVES_POOL - MOVE_SLACK
    THEN FALSE ELSE allow

\* where the program is while its deadline is set: in bot021, bot026 and
\* bot018 main fixes the deadline before it calls search, bot001 takes
\* start_time at the head of search (bot001.cpp:349, bot002.cpp:537), bot012 when search is
\* entered (bot012.cpp:433-436)
ClockRuns(b, p) ==
    \/ b \in {"bot021", "bot026", "bot018"} /\ p \in {"main", "loop"}
    \/ b \in {"bot001", "bot002"} /\ p = "loop"
    \/ b = "bot012" /\ p \in {"s449", "s454", "s461", "s469", "s485", "s496"}

\* the clock reaches the deadline
DeadlinePasses ==
    /\ ClockRuns(bot, pc)
    /\ ~timeup
    /\ timeup' = TRUE
    /\ UNCHANGED <<bot, evalVars, pc, out, gameVars, poolVars, root, iterations,
                   allow_expand, best_child_global, max_visits_global, it, late, frame>>

\* search(): bot021.cpp:382-399
Search_021 ==
    /\ bot = "bot021" /\ pc = "main"
    /\ \E nn \in {new_node(node_pool, 0, 0, Move(0, 0, 0, 0, 0, 0), -color)} :
       \E gen \in {get_legal_moves_021(board, color, 0, MAX_MOVES_FOR_ROOT_NODE)} :
          /\ root' = nn.ret
          /\ node_pool' = [nn.pool EXCEPT ![nn.ret].moves_start_idx = 0,
                                          ![nn.ret].moves_count = Len(gen),
                                          ![nn.ret].moves_generated = TRUE]
          /\ node_pool_ptr' = nn.ptr
          /\ move_pool' = WriteSeq(move_pool, 0, gen)
          /\ move_pool_ptr' = Len(gen)
    /\ best_child_global' = 0
    /\ max_visits_global' = -1
    /\ iterations' = 0
    /\ allow_expand' = TRUE
    /\ pc' = "loop"
    /\ UNCHANGED <<bot, evalVars, out, gameVars, timeup, it, late, frame>>

\* one pass of the while(true) loop that does not break: bot021.cpp:403-490
Iterate_021 ==
    /\ bot = "bot021" /\ pc = "loop"
    /\ ~time_check(iterations, timeup)
    /\ iterations < MaxIter \/ timeup
    /\ \E allow \in {expansion_allowed(iterations, node_pool_ptr, move_pool_ptr,
                                        allow_expand)} :
       \E sel \in Select_021(node_pool, root, board, color) :
       \E offset \in 0 .. (IF node_pool[sel.node].moves_count > 0
                           THEN node_pool[sel.node].moves_count - 1 ELSE 0) :
       \E v \in EvalValues :
       \E st \in {Step_021(node_pool, node_pool_ptr, move_pool, move_pool_ptr,
                           sel, allow, offset, color)} :
       \E bp \in {Backprop_021([pool |-> st.pool, best |-> best_child_global,
                                maxv |-> max_visits_global],
                               st.node, IF st.terminal THEN st.win_prob ELSE v,
                               color, root)} :
          /\ allow_expand' = allow
          /\ node_pool' = bp.pool
          /\ node_pool_ptr' = st.ptr
          /\ move_pool' = st.mpool
          /\ move_pool_ptr' = st.mptr
          /\ best_child_global' = bp.best
          /\ max_visits_global' = bp.maxv
          /\ it' = [kind |-> st.kind, node |-> st.node, state |-> st.state,
                    cp |-> st.cp,
                    win_prob |-> IF st.terminal THEN st.win_prob ELSE v,
                    evaluated |-> ~st.terminal]
    /\ iterations' = iterations + 1
    /\ late' = IF timeup THEN late + 1 ELSE late
    /\ UNCHANGED frame
    /\ UNCHANGED <<bot, evalVars, pc, out, gameVars, root, timeup>>

\* the loop breaks on the deadline and search returns: bot021.cpp:404, 493-495
Return_021 ==
    /\ bot = "bot021" /\ pc = "loop"
    /\ time_check(iterations, timeup)
    /\ out' = IF best_child_global # 0 THEN node_pool[best_child_global].move
              ELSE IF node_pool[root].first_child # 0
                   THEN node_pool[node_pool[root].first_child].move
                   ELSE NoMove
    /\ pc' = "done"
    /\ UNCHANGED <<bot, evalVars, gameVars, poolVars, searchVars>>

Next021 == Search_021 \/ Iterate_021 \/ Return_021 \/ DeadlinePasses

Spec021 == Init021 /\ [][Next021]_vars


(***************************************************************************)
(* bot026: the same arena search without the expansion switch; the loop    *)
(* breaks when a pool runs low.  uct_select_child, add_child and the       *)
(* backpropagation loop are those of bot021 (bot026.cpp:234-252, 499-529). *)
(* The generator is not capped, so the root boards of this variant have at *)
(* most MaxEmptyFull Empty cells, and a search at most MaxIterFull         *)
(* iterations before the deadline.                                         *)
(***************************************************************************)
MAX_NODES_026 == 10000000
NODE_SLACK_026 == 500
MOVE_SLACK_026 == 5000
MaxEmptyFull == 2
MaxIterFull == 3

NodeInit_026(p, m, pjm) ==
    [parent |-> p, first_child |-> 0, next_sibling |-> 0, move |-> m,
     moves_start_idx |-> -1, moves_count |-> 0, wins |-> 0, visits |-> 0,
     player_just_moved |-> pjm]

new_node_026(pool, ptr, p, m, pjm) ==
    IF ptr >= MAX_NODES_026
    THEN [ret |-> 0, pool |-> pool, ptr |-> ptr]
    ELSE [ret |-> ptr + 1,
          pool |-> WriteAt(pool, ptr, NodeInit_026(p, m, pjm)),
          ptr |-> ptr + 1]

RECURSIVE Select_026(_, _, _, _)
Select_026(pool, n, state, cp) ==
    IF pool[n].moves_count = 0 /\ pool[n].first_child # 0
    THEN UNION { Select_026(pool, c, apply_move(state, pool[c].move), -cp) :
                 c \in uct_select_child_021(pool, n) }
    ELSE { [node |-> n, state |-> state, cp |-> cp] }

\* bot026.cpp:446-494
Step_026(pool, ptr, mpool, mptr, sel, offset, root_player) ==
    LET n == sel.node
        idx == pool[n].moves_start_idx + offset
        m == mpool[idx + 1]
        last_idx == pool[n].moves_start_idx + pool[n].moves_count - 1
        mpool1 == [mpool EXCEPT ![idx + 1] = mpool[last_idx + 1],
                                ![last_idx + 1] = mpool[idx + 1]]
        pool1 == [pool EXCEPT ![n].moves_count = @ - 1]
        state1 == apply_move(sel.state, m)
        cp1 == -sel.cp
        nn == new_node_026(pool1, ptr, n, m, -cp1)
        gen == get_legal_moves_026(state1, cp1, mptr)
        pool2 == [nn.pool EXCEPT ![nn.ret].moves_start_idx = mptr,
                                 ![nn.ret].moves_count = Len(gen)]
        stuck == Len(gen) = 0
    IN  IF pool[n].moves_count > 0
        THEN IF nn.ret # 0
             THEN [pool |-> add_child(pool2, n, nn.ret), ptr |-> nn.ptr,
                   mpool |-> WriteSeq(mpool1, mptr, gen),
                   mptr |-> mptr + Len(gen),
                   node |-> nn.ret, state |-> state1, cp |-> cp1,
                   terminal |-> stuck,
                   win_prob |-> IF stuck THEN StuckScore(cp1, root_player) ELSE 0,
                   kind |-> "expanded"]
             ELSE [pool |-> pool1, ptr |-> ptr, mpool |-> mpool1, mptr |-> mptr,
                   node |-> n, state |-> state1, cp |-> cp1,
                   terminal |-> FALSE, win_prob |-> 0, kind |-> "oom"]
        ELSE IF pool[n].first_child = 0
        THEN [pool |-> pool, ptr |-> ptr, mpool |-> mpool, mptr |-> mptr,
              node |-> n, state |-> sel.state, cp |-> sel.cp,
              terminal |-> TRUE,
              win_prob |-> TerminalScore(pool[n], root_player),
              kind |-> "terminal"]
        ELSE [pool |-> pool, ptr |-> ptr, mpool |-> mpool, mptr |-> mptr,
              node |-> n, state |-> sel.state, cp |-> sel.cp,
              terminal |-> FALSE, win_prob |-> 0, kind |-> "unexpanded"]

\* the three tests at the head of the loop, bot026.cpp:425-429
loop_break_026(iters, tu, nptr, mptr) ==
    /\ iters % CHECK_PERIOD = 0
    /\ \/ tu
       \/ nptr > MAX_NODES_026 - NODE_SLACK_026
       \/ mptr > MAX_MOVES_POOL_026 - MOVE_SLACK_026

Init026 ==
    /\ bot = "bot026"
    /\ \E E \in SUBSET Region :
          /\ Cardinality(E) <= MaxEmptyFull
          /\ board = RootBoard(E)
    /\ color \in Sides
    /\ pc = "main"
    /\ out = NoMove
    /\ prev = board
    /\ last = NoMove
    /\ ply = 0
    /\ NoSearch

\* search(): bot026.cpp:408-422
Search_026 ==
    /\ bot = "bot026" /\ pc = "main"
    /\ \E nn \in {new_node_026(node_pool, 0, 0, Move(0, 0, 0, 0, 0, 0), -color)} :
       \E gen \in {get_legal_moves_026(board, color, 0)} :
          /\ root' = nn.ret
          /\ node_pool' = [nn.pool EXCEPT ![nn.ret].moves_start_idx = 0,
                                          ![nn.ret].moves_count = Len(gen)]
          /\ node_pool_ptr' = nn.ptr
          /\ move_pool' = WriteSeq(move_pool, 0, gen)
          /\ move_pool_ptr' = Len(gen)
    /\ best_child_global' = 0
    /\ max_visits_global' = -1
    /\ iterations' = 0
    /\ pc' = "loop"
    /\ UNCHANGED <<bot, evalVars, out, gameVars, allow_expand, timeup, it, late, frame>>

\* one pass of the loop that does not break: bot026.cpp:424-532
Iterate_026 ==
    /\ bot = "bot026" /\ pc = "loop"
    /\ ~loop_break_026(iterations, timeup, node_pool_ptr, move_pool_ptr)
    /\ iterations < MaxIterFull \/ timeup
    /\ \E sel \in Select_026(node_pool, root, board, color) :
       \E offset \in 0 .. (IF node_pool[sel.node].moves_count > 0
                           THEN node_pool[sel.node].moves_count - 1 ELSE 0) :
       \E v \in EvalValues :
       \E st \in {Step_026(node_pool, node_pool_ptr, move_pool, move_pool_ptr,
                           sel, offset, color)} :
       \E bp \in {Backprop_021([pool |-> st.pool, best |-> best_child_global,
                                maxv |-> max_visits_global],
                               st.node, IF st.terminal THEN st.win_prob ELSE v,
                               color, root)} :
          /\ node_pool' = bp.pool
          /\ node_pool_ptr' = st.ptr
          /\ move_pool' = st.mpool
          /\ move_pool_ptr' = st.mptr
          /\ best_child_global' = bp.best
          /\ max_visits_global' = bp.maxv
          /\ it' = [kind |-> st.kind, node |-> st.node, state |-> st.state,
                    cp |-> st.cp,
                    win_prob |-> IF st.terminal THEN st.win_prob ELSE v,
                    evaluated |-> ~st.terminal]
    /\ iterations' = iterations + 1
    /\ late' = IF timeup THEN late + 1 ELSE late
    /\ UNCHANGED frame
    /\ UNCHANGED <<bot, evalVars, pc, out, gameVars, root, allow_expand, timeup>>

\* the loop breaks and search returns: bot026.cpp:425-429, 534-536
Return_026 ==
    /\ bot = "bot026" /\ pc = "loop"
    /\ loop_break_026(iterations, timeup, node_pool_ptr, move_pool_ptr)
    /\ out' = IF best_child_global # 0 THEN node_pool[best_child_global].move
              ELSE IF node_pool[root].first_child # 0
                   THEN node_pool[node_pool[root].first_child].move
                   ELSE NoMove
    /\ pc' = "done"
    /\ UNCHANGED <<bot, evalVars, gameVars, poolVars, searchVars>>

Next026 == Search_026 \/ Iterate_026 \/ Return_026

(***************************************************************************)
(* bot018: the arena search over nodes that own vectors.  A node holds its *)
(* children in creation order and its untried moves; pool_ptr is           *)
(* node_pool_ptr, best_child and max_visits are best_child_global and      *)
(* max_visits_global.  The move generator is the vector generator of       *)
(* bot001 (bot018.cpp:70-108) and the backpropagation loop is the one of   *)
(* bot021 (bot018.cpp:453-466).                                            *)
(***************************************************************************)
MAX_NODES_018 == 200000
NODE_SLACK_018 == 500

NodeInit_018(p, m, pjm) ==
    [parent |-> p, move |-> m, children |-> <<>>, untried_moves |-> <<>>,
     wins |-> 0, visits |-> 0, player_just_moved |-> pjm]

new_node_018(pool, ptr, p, m, pjm) ==
    IF ptr >= MAX_NODES_018
    THEN [ret |-> 0, pool |-> pool, ptr |-> ptr]
    ELSE [ret |-> ptr + 1,
          pool |-> WriteAt(pool, ptr, NodeInit_018(p, m, pjm)),
          ptr |-> ptr + 1]

\* The children uct_select_child may return: a node with children has
\* visits >= 1, so every score is a finite number above -1e9.
uct_select_child_018(pool, n) == SeqToSet(pool[n].children)

\* v[idx] = v.back(); v.pop_back() for a 0-based idx
SwapPop(v, idx) ==
    SubSeq([v EXCEPT ![idx + 1] = v[Len(v)]], 1, Len(v) - 1)

RECURSIVE Select_018(_, _, _, _)
Select_018(pool, n, state, cp) ==
    IF pool[n].untried_moves = <<>> /\ pool[n].children # <<>>
    THEN UNION { Select_018(pool, c, apply_move(state, pool[c].move), -cp) :
                 c \in uct_select_child_018(pool, n) }
    ELSE { [node |-> n, state |-> state, cp |-> cp] }

\* bot018.cpp:392-445
Step_018(pool, ptr, sel, idx, root_player) ==
    LET n == sel.node
        m == pool[n].untried_moves[idx + 1]
        state1 == apply_move(sel.state, m)
        cp1 == -sel.cp
        next_moves == get_legal_moves_001(state1, cp1)
        stuck == next_moves = <<>>
        nn == new_node_018(pool, ptr, n, m, -cp1)
        check_moves == get_legal_moves_001(sel.state, sel.cp)
    IN  IF pool[n].untried_moves # <<>>
        THEN IF nn.ret # 0
             THEN [pool |-> [nn.pool EXCEPT
                                ![nn.ret].untried_moves = next_moves,
                                ![n].untried_moves = SwapPop(@, idx),
                                ![n].children = Append(@, nn.ret)],
                   ptr |-> nn.ptr,
                   node |-> nn.ret, state |-> state1, cp |-> cp1,
                   terminal |-> stuck,
                   win_prob |-> IF stuck THEN StuckScore(cp1, root_player) ELSE 0,
                   kind |-> "expanded"]
             ELSE [pool |-> pool, ptr |-> ptr,
                   node |-> n, state |-> state1, cp |-> cp1,
                   terminal |-> FALSE, win_prob |-> 0, kind |-> "oom"]
        ELSE IF check_moves = <<>>
        THEN [pool |-> pool, ptr |-> ptr,
              node |-> n, state |-> sel.state, cp |-> sel.cp,
              terminal |-> TRUE,
              win_prob |-> StuckScore(sel.cp, root_player),
              kind |-> "terminal"]
        ELSE [pool |-> pool, ptr |-> ptr,
              node |-> n, state |-> sel.state, cp |-> sel.cp,
              terminal |-> FALSE, win_prob |-> 0, kind |-> "unexpanded"]

\* the two tests at the head of the loop, bot018.cpp:380-383
loop_break_018(iters, tu, nptr) ==
    /\ iters % CHECK_PERIOD = 0
    /\ (tu \/ nptr > MAX_NODES_018 - NODE_SLACK_018)

Init018 ==
    /\ bot = "bot018"
    /\ \E E \in SUBSET Region :
          /\ Cardinality(E) <= MaxEmptyFull
          /\ board = RootBoard(E)
    /\ color \in Sides
    /\ pc = "main"
    /\ out = NoMove
    /\ prev = board
    /\ last = NoMove
    /\ ply = 0
    /\ NoSearch

\* search(): bot018.cpp:355-377
Search_018 ==
    /\ bot = "bot018" /\ pc = "main"
    /\ \E nn \in {new_node_018(node_pool, 0, 0, Move(0, 0, 0, 0, 0, 0), -color)} :
          /\ root' = nn.ret
          /\ node_pool' = [nn.pool EXCEPT ![nn.ret].untried_moves =
                                              get_legal_moves_001(board, color)]
          /\ node_pool_ptr' = nn.ptr
    /\ best_child_global' = 0
    /\ max_visits_global' = -1
    /\ iterations' = 0
    /\ pc' = "loop"
    /\ UNCHANGED <<bot, evalVars, out, gameVars, move_pool, move_pool_ptr, allow_expand,
                   timeup, it, late, frame>>

\* one pass of the loop that does not break: bot018.cpp:379-468
Iterate_018 ==
    /\ bot = "bot018" /\ pc = "loop"
    /\ ~loop_break_018(iterations, timeup, node_pool_ptr)
    /\ iterations < MaxIterFull \/ timeup
    /\ \E sel \in Select_018(node_pool, root, board, color) :
       \E idx \in 0 .. (IF node_pool[sel.node].untried_moves # <<>>
                        THEN Len(node_pool[sel.node].untried_moves) - 1 ELSE 0) :
       \E v \in EvalValues :
       \E st \in {Step_018(node_pool, node_pool_ptr, sel, idx, color)} :
       \E bp \in {Backprop_021([pool |-> st.pool, best |-> best_child_global,
                                maxv |-> max_visits_global],
                               st.node, IF st.terminal THEN st.win_prob ELSE v,
                               color, root)} :
          /\ node_pool' = bp.pool
          /\ node_pool_ptr' = st.ptr
          /\ best_child_global' = bp.best
          /\ max_visits_global' = bp.maxv
          /\ it' = [kind |-> st.kind, node |-> st.node, state |-> st.state,
                    cp |-> st.cp,
                    win_prob |-> IF st.terminal THEN st.win_prob ELSE v,
                    evaluated |-> ~st.terminal]
    /\ iterations' = iterations + 1
    /\ late' = IF timeup THEN late + 1 ELSE late
    /\ UNCHANGED frame
    /\ UNCHANGED <<bot, evalVars, pc, out, gameVars, move_pool, move_pool_ptr, root,
                   allow_expand, timeup>>

\* the loop breaks and search returns: bot018.cpp:380-383, 470-471
Return_018 ==
    /\ bot = "bot018" /\ pc = "loop"
    /\ loop_break_018(iterations, timeup, node_pool_ptr)
    /\ out' = IF best_child_global = 0 /\ node_pool[root].children # <<>>
              THEN node_pool[node_pool[root].children[1]].move
              ELSE IF best_child_global # 0
                   THEN node_pool[best_child_global].move
                   ELSE NoMove
    /\ pc' = "done"
    /\ UNCHANGED <<bot, evalVars, gameVars, poolVars, searchVars>>

Next018 == Search_018 \/ Iterate_018 \/ Return_018

(***************************************************************************)
(* SpecArena: one search of one of the three arena programs.               *)
(***************************************************************************)
InitArena == Init021 \/ Init026 \/ Init018

NextArena ==
    \/ Search_021 \/ Iterate_021 \/ Return_021
    \/ Search_026 \/ Iterate_026 \/ Return_026
    \/ Search_018 \/ Iterate_018 \/ Return_018
    \/ DeadlinePasses

SpecArena == InitArena /\ [][NextArena]_vars

(***************************************************************************)
(* bot001: the long-running engine.  MCTSNode objects live on the heap:    *)
(* node_pool[a] is the object at address a, in order of allocation, and a  *)
(* deleted object leaves Freed behind.  main keeps the tree between turns  *)
(* through advance_root.  bot012 has the same MCTSNode, uct_select_child,  *)
(* final scan and main.                                                    *)
(*                                                                         *)
(* MaxIter001 bounds the iterations of one search.  The engine is started *)
(* at the end of a game: the cells of RunRegion, (0,1), (0,3) and (1,4),   *)
(* are Empty or not, every other cell off the queens is an Obstacle.       *)
(***************************************************************************)
MaxIter001 == 4
RunRegion == {1, 3, 12}

Freed == [freed |-> TRUE]

\* MCTSNode::MCTSNode, bot001.cpp:145-146
MCTSNode_001(p, m, pjm) ==
    [parent |-> p, move |-> m, children |-> <<>>, wins |-> 0, visits |-> 0,
     untried_moves |-> <<>>, player_just_moved |-> pjm, freed |-> FALSE]

\* v.erase(v.begin() + idx) for a 0-based idx, bot001.cpp:382
EraseAt(v, idx) == SubSeq(v, 1, idx) \o SubSeq(v, idx + 2, Len(v))

\* MCTSNode::uct_select_child, bot001.cpp:154-167 (bot012.cpp:172-185).
\* score = wins / visits + C * sqrt(log(parent visits) / visits): a child
\* with visits = 0 scores NaN (0.0 / 0), and so does every child when the
\* parent has visits = 0 (sqrt of -inf); NaN > best_score is false, so such a
\* child is never best_child.  Every other score is a number above -1e9 and
\* may be the largest.  0 is the nullptr the function returns when no child
\* was taken.
\* a selection that takes every score for a number
uct_select_child_001_AnyChild(pool, n) ==
    IF pool[n].children = <<>> THEN {0} ELSE SeqToSet(pool[n].children)

uct_select_child_001(pool, n) ==
    LET cand == IF pool[n].visits = 0 THEN {}
                ELSE { c \in SeqToSet(pool[n].children) : pool[c].visits > 0 }
    IN  IF cand = {} THEN {0} ELSE cand

\* the selection loop, bot001.cpp:364-368; node 0 is the null pointer that
\* the loop dereferences next
RECURSIVE Select_001(_, _, _, _)
Select_001(pool, n, state, cp) ==
    IF n = 0 THEN { [node |-> 0, state |-> state, cp |-> cp] }
    ELSE IF pool[n].untried_moves = <<>> /\ pool[n].children # <<>>
    THEN UNION { Select_001(pool, c,
                            IF c = 0 THEN state
                            ELSE apply_move(state, pool[c].move), -cp) :
                 c \in uct_select_child_001(pool, n) }
    ELSE { [node |-> n, state |-> state, cp |-> cp] }

\* an expansion that gives the new node the side to move next
Expand_001_SideToMove(pool, sel, idx) ==
    LET n == sel.node
        m == pool[n].untried_moves[idx + 1]
        state == apply_move(sel.state, m)
        cp == -sel.cp
        a == Len(pool) + 1
        nn == [MCTSNode_001(n, m, cp) EXCEPT
                  !.untried_moves = get_legal_moves_001(state, cp)]
    IN  [pool |-> Append([pool EXCEPT
                             ![n].untried_moves = EraseAt(@, idx),
                             ![n].children = Append(@, a)], nn),
         node |-> a, state |-> state, cp |-> cp, kind |-> "expanded"]

\* the expansion, bot001.cpp:371-385
Expand_001(pool, sel, idx) ==
    LET n == sel.node
        m == pool[n].untried_moves[idx + 1]
        state == apply_move(sel.state, m)
        cp == -sel.cp
        a == Len(pool) + 1
        nn == [MCTSNode_001(n, m, -cp) EXCEPT
                  !.untried_moves = get_legal_moves_001(state, cp)]
    IN  [pool |-> Append([pool EXCEPT
                             ![n].untried_moves = EraseAt(@, idx),
                             ![n].children = Append(@, a)], nn),
         node |-> a, state |-> state, cp |-> cp, kind |-> "expanded"]

\* selection and expansion of one iteration, bot001.cpp:359-385
Step_001(pool, sel, idx) ==
    IF pool[sel.node].untried_moves # <<>>
    THEN Expand_001(pool, sel, idx)
    ELSE [pool |-> pool, node |-> sel.node, state |-> sel.state,
          cp |-> sel.cp, kind |-> "leaf"]

\* a loop that stops below the root
RECURSIVE Backprop_001_BelowRoot(_, _, _, _)
Backprop_001_BelowRoot(pool, n, win_prob, root_player) ==
    IF n = 0 \/ pool[n].parent = 0 THEN pool
    ELSE Backprop_001_BelowRoot(
             [pool EXCEPT ![n].visits = @ + 1,
                          ![n].wins = @ + (IF pool[n].player_just_moved = root_player
                                           THEN win_prob ELSE ONE - win_prob)],
             pool[n].parent, win_prob, root_player)

\* the backpropagation loop, bot001.cpp:391-399 (1.0 is ONE)
RECURSIVE Backprop_001(_, _, _, _)
Backprop_001(pool, n, win_prob, root_player) ==
    IF n = 0 THEN pool
    ELSE Backprop_001(
             [pool EXCEPT ![n].visits = @ + 1,
                          ![n].wins = @ + (IF pool[n].player_just_moved = root_player
                                           THEN win_prob ELSE ONE - win_prob)],
             pool[n].parent, win_prob, root_player)

\* the scan of the root's children that keeps the last child with the
\* highest count
RECURSIVE Scan_001_LastWins(_, _, _, _, _)
Scan_001_LastWins(pool, cs, i, best_node, max_visits) ==
    IF i > Len(cs) THEN best_node
    ELSE IF pool[cs[i]].visits >= max_visits
         THEN Scan_001_LastWins(pool, cs, i + 1, cs[i], pool[cs[i]].visits)
         ELSE Scan_001_LastWins(pool, cs, i + 1, best_node, max_visits)

\* the scan of the root's children, bot001.cpp:409-416
RECURSIVE Scan_001(_, _, _, _, _)
Scan_001(pool, cs, i, best_node, max_visits) ==
    IF i > Len(cs) THEN best_node
    ELSE IF pool[cs[i]].visits > max_visits
         THEN Scan_001(pool, cs, i + 1, cs[i], pool[cs[i]].visits)
         ELSE Scan_001(pool, cs, i + 1, best_node, max_visits)

\* what search returns after its loop, bot001.cpp:404-418
FinalMove_001(pool, rt) ==
    IF pool[rt].children = <<>> THEN NoMove
    ELSE pool[Scan_001(pool, pool[rt].children, 1, 0, -1)].move

\* the first child whose move is m (operator== compares the six fields),
\* 0 when there is none: bot001.cpp:425-430
RECURSIVE FindChild(_, _, _, _)
FindChild(pool, cs, m, i) ==
    IF i > Len(cs) THEN 0
    ELSE IF pool[cs[i]].move = m THEN cs[i]
    ELSE FindChild(pool, cs, m, i + 1)

\* the objects ~MCTSNode deletes, bot001.cpp:148-152
RECURSIVE Subtree(_, _)
Subtree(pool, n) ==
    {n} \cup UNION { Subtree(pool, c) : c \in SeqToSet(pool[n].children) }

\* a destructor that does not delete the children
delete_001_NodeOnly(pool, n) ==
    [a \in 1 .. Len(pool) |-> IF a = n THEN Freed ELSE pool[a]]

delete_001(pool, n) ==
    LET D == Subtree(pool, n)
    IN  [a \in 1 .. Len(pool) |-> IF a \in D THEN Freed ELSE pool[a]]

\* a tree that is kept as it is after a move
advance_root_001_Stay(pool, rt, m) == [pool |-> pool, root |-> rt]

\* MCTS::advance_root, bot001.cpp:421-445
advance_root_001(pool, rt, m) ==
    IF rt = 0 THEN [pool |-> pool, root |-> 0]
    ELSE LET new_root == FindChild(pool, pool[rt].children, m, 1)
         IN  IF new_root # 0
             THEN LET kept == [pool EXCEPT ![rt].children =
                                  SelectSeq(@, LAMBDA c : c # new_root)]
                  IN  [pool |-> [delete_001(kept, rt) EXCEPT ![new_root].parent = 0],
                       root |-> new_root]
             ELSE [pool |-> delete_001(pool, rt), root |-> 0]

\* an advance_root that deletes the old tree as bot001 does
advance_root_012_Delete(pool, rt, m) == advance_root_001(pool, rt, m)

\* MCTS::advance_root of bot012, bot012.cpp:535-556: the old tree is leaked
advance_root_012(pool, rt, m) ==
    IF rt = 0 THEN [pool |-> pool, root |-> 0]
    ELSE LET new_root == FindChild(pool, pool[rt].children, m, 1)
         IN  IF new_root # 0
             THEN [pool |-> [pool EXCEPT ![new_root].parent = 0], root |-> new_root]
             ELSE [pool |-> pool, root |-> 0]

advance_root(b, pool, rt, m) ==
    IF b = "bot001" THEN advance_root_001(pool, rt, m)
    ELSE advance_root_012(pool, rt, m)

Init001 ==
    /\ bot = "bot001"
    /\ \E E \in SUBSET RunRegion : board = RootBoard(E)
    /\ color \in Sides
    /\ pc = "main"
    /\ out = NoMove
    /\ prev = board
    /\ last = NoMove
    /\ ply = 0
    /\ NoSearch

\* search() up to its loop, bot001.cpp:344-352
Search_001 ==
    /\ bot = "bot001" /\ pc = "main"
    /\ IF root = 0
       THEN /\ root' = Len(node_pool) + 1
            /\ node_pool' = Append(node_pool,
                  [MCTSNode_001(0, Move(0, 0, 0, 0, 0, 0), -color) EXCEPT
                      !.untried_moves = get_legal_moves_001(board, color)])
       ELSE UNCHANGED <<root, node_pool>>
    /\ timeup' = FALSE
    /\ iterations' = 0
    /\ pc' = "loop"
    /\ UNCHANGED <<bot, evalVars, out, gameVars, node_pool_ptr, move_pool, move_pool_ptr,
                   allow_expand, best_child_global, max_visits_global, it, late,
                   frame>>

\* one pass of the loop, bot001.cpp:354-401; a null node stops the program
Iterate_001 ==
    /\ bot = "bot001" /\ pc = "loop"
    /\ ~timeup
    /\ iterations < MaxIter001
    /\ \E sel \in Select_001(node_pool, root, board, color) :
          IF sel.node = 0
          THEN /\ pc' = "crashed"
               /\ UNCHANGED <<node_pool, it, iterations>>
          ELSE \E idx \in 0 .. (IF Len(node_pool[sel.node].untried_moves) > 0
                                THEN Len(node_pool[sel.node].untried_moves) - 1 ELSE 0) :
               \E v \in EvalValues :
               \E st \in {Step_001(node_pool, sel, idx)} :
                  /\ node_pool' = Backprop_001(st.pool, st.node, v, color)
                  /\ it' = [kind |-> st.kind, node |-> st.node,
                            state |-> st.state, cp |-> st.cp,
                            win_prob |-> v, evaluated |-> TRUE]
                  /\ iterations' = iterations + 1
                  /\ pc' = pc
    /\ UNCHANGED <<bot, evalVars, out, gameVars, node_pool_ptr, move_pool, move_pool_ptr,
                   root, allow_expand, best_child_global, max_visits_global,
                   timeup, late, frame>>

\* the loop breaks on the clock and search returns, bot001.cpp:355-357, 404-418
Return_001 ==
    /\ bot = "bot001" /\ pc = "loop"
    /\ timeup
    /\ out' = FinalMove_001(node_pool, root)
    /\ pc' = "done"
    /\ UNCHANGED <<bot, evalVars, gameVars, poolVars, searchVars>>

\* main after search: the move is printed, applied and the tree advanced,
\* or the sentinel is printed and the program ends; bot001.cpp:514-523,
\* 564-573 (bot012.cpp has the same main)
MainOutput ==
    /\ bot \in {"bot001", "bot012"} /\ pc = "done"
    /\ IF out.x0 # -1
       THEN \E ar \in {advance_root(bot, node_pool, root, out)} :
               /\ board' = apply_move(board, out)
               /\ prev' = board
               /\ last' = out
               /\ ply' = ply + 1
               /\ node_pool' = ar.pool
               /\ root' = ar.root
               /\ pc' = "wait"
       ELSE /\ pc' = "exit"
            /\ UNCHANGED <<board, prev, last, ply, node_pool, root>>
    /\ UNCHANGED <<bot, evalVars, out, color, node_pool_ptr, move_pool, move_pool_ptr,
                   iterations, allow_expand, best_child_global,
                   max_visits_global, timeup, it, late, frame>>

\* main reads the opponent's move, applies it and advances the tree;
\* bot001.cpp:529-560
MainInput ==
    /\ bot \in {"bot001", "bot012"} /\ pc = "wait"
    /\ ply < MaxPly
    /\ \E m \in SeqToSet(get_legal_moves_001(board, -color)) :
       \E ar \in {advance_root(bot, node_pool, root, m)} :
          /\ board' = apply_move(board, m)
          /\ prev' = board
          /\ last' = m
          /\ node_pool' = ar.pool
          /\ root' = ar.root
    /\ ply' = ply + 1
    /\ pc' = "main"
    /\ UNCHANGED <<bot, evalVars, out, color, node_pool_ptr, move_pool, move_pool_ptr,
                   iterations, allow_expand, best_child_global,
                   max_visits_global, timeup, it, late, frame>>

Next001 ==
    \/ Search_001 \/ Iterate_001 \/ Return_001
    \/ MainOutput \/ MainInput \/ DeadlinePasses

Spec001 == Init001 /\ [][Next001]_vars

(***************************************************************************)
(* bot012: search reads the clock at six places (time_up(), bot012.cpp:    *)
(* 449, 454, 461, 469, 485, 496); each action below is one of these reads  *)
(* followed by the code up to the next read.  frame holds the locals node, *)
(* state, current_player and new_node of the iteration under way.          *)
(***************************************************************************)
MaxIter012 == 5

others_012 ==
    <<bot, evalVars, gameVars, node_pool_ptr, move_pool, move_pool_ptr, root,
      allow_expand, best_child_global, max_visits_global, timeup, late>>

\* where the loop goes after its selection test, bot012.cpp:460, 468, 496
AfterSelection(pool, n) ==
    IF pool[n].untried_moves = <<>> /\ pool[n].children # <<>> THEN "s461"
    ELSE IF pool[n].untried_moves # <<>> THEN "s469"
    ELSE "s496"

\* END_SEARCH, bot012.cpp:513-529, reached from the read of the clock at site
EndSearch_012(pool, site) ==
    /\ node_pool' = pool
    /\ out' = FinalMove_001(pool, root)
    /\ pc' = "done"
    /\ frame' = [node |-> 0, aborted |-> site]
    /\ UNCHANGED <<it, iterations>>

Init012 ==
    /\ bot = "bot012"
    /\ \E E \in SUBSET RunRegion : board = RootBoard(E)
    /\ color \in Sides
    /\ pc = "main"
    /\ out = NoMove
    /\ prev = board
    /\ last = NoMove
    /\ ply = 0
    /\ NoSearch

\* search() up to its first read of the clock, bot012.cpp:426-448
Search_012 ==
    /\ bot = "bot012" /\ pc = "main"
    /\ IF root = 0
       THEN /\ root' = Len(node_pool) + 1
            /\ node_pool' = Append(node_pool,
                               MCTSNode_001(0, Move(0, 0, 0, 0, 0, 0), -color))
            /\ pc' = "s449"
       ELSE /\ UNCHANGED <<root, node_pool>>
            /\ pc' = "s454"
    /\ timeup' = FALSE
    /\ iterations' = 0
    /\ frame' = NoFrame
    /\ UNCHANGED <<bot, evalVars, out, gameVars, node_pool_ptr, move_pool, move_pool_ptr,
                   allow_expand, best_child_global, max_visits_global, it, late>>

\* bot012.cpp:449-450: the moves of a new root
Check_449 ==
    /\ bot = "bot012" /\ pc = "s449"
    /\ IF timeup THEN EndSearch_012(node_pool, "s449")
       ELSE /\ node_pool' = [node_pool EXCEPT ![root].untried_moves =
                                get_legal_moves_001(board, color)]
            /\ pc' = "s454"
            /\ UNCHANGED <<out, frame, it, iterations>>
    /\ UNCHANGED others_012

\* bot012.cpp:454-460: the head of the loop
Check_454 ==
    /\ bot = "bot012" /\ pc = "s454"
    /\ timeup \/ iterations < MaxIter012
    /\ IF timeup THEN EndSearch_012(node_pool, "s454")
       ELSE /\ frame' = [node |-> root, state |-> board, cp |-> color,
                         new_node |-> 0]
            /\ pc' = AfterSelection(node_pool, root)
            /\ UNCHANGED <<out, node_pool, it, iterations>>
    /\ UNCHANGED others_012

\* bot012.cpp:461-465: one step of the selection; a null best_child is
\* dereferenced at line 463
Check_461 ==
    /\ bot = "bot012" /\ pc = "s461"
    /\ IF timeup THEN EndSearch_012(node_pool, "s461")
       ELSE /\ \E c \in uct_select_child_001(node_pool, frame.node) :
                  IF c = 0
                  THEN pc' = "crashed" /\ UNCHANGED frame
                  ELSE /\ frame' = [frame EXCEPT
                                       !.node = c,
                                       !.state = apply_move(@, node_pool[c].move),
                                       !.cp = -@]
                       /\ pc' = AfterSelection(node_pool, c)
            /\ UNCHANGED <<out, node_pool, it, iterations>>
    /\ UNCHANGED others_012

\* bot012.cpp:469-482: a move is taken out of untried_moves and the new node
\* is allocated
Check_469 ==
    /\ bot = "bot012" /\ pc = "s469"
    /\ IF timeup THEN EndSearch_012(node_pool, "s469")
       ELSE /\ \E idx \in 0 .. Len(node_pool[frame.node].untried_moves) - 1 :
               \E m \in {node_pool[frame.node].untried_moves[idx + 1]} :
                  /\ node_pool' = Append(
                         [node_pool EXCEPT ![frame.node].untried_moves =
                                               SwapPop(@, idx)],
                         MCTSNode_001(frame.node, m, frame.cp))
                  /\ frame' = [frame EXCEPT !.state = apply_move(@, m),
                                            !.cp = -@,
                                            !.new_node = Len(node_pool) + 1]
            /\ pc' = "s485"
            /\ UNCHANGED <<out, it, iterations>>
    /\ UNCHANGED others_012

\* bot012.cpp:485-492: the new node gets its moves and joins the tree, or is
\* deleted
Check_485 ==
    /\ bot = "bot012" /\ pc = "s485"
    /\ IF timeup
       THEN EndSearch_012([node_pool EXCEPT ![frame.new_node] = Freed], "s485")
       ELSE /\ node_pool' = [node_pool EXCEPT
                                ![frame.new_node].untried_moves =
                                    get_legal_moves_001(frame.state, frame.cp),
                                ![frame.node].children = Append(@, frame.new_node)]
            /\ frame' = [frame EXCEPT !.node = frame.new_node]
            /\ pc' = "s496"
            /\ UNCHANGED <<out, it, iterations>>
    /\ UNCHANGED others_012

\* the evaluation and the backpropagation made without reading the clock
Check_496_NoCheck ==
    /\ bot = "bot012" /\ pc = "s496"
    /\ \E v \in EvalValues :
          /\ node_pool' = Backprop_001(node_pool, frame.node, v, color)
          /\ it' = [kind |-> IF frame.new_node # 0 THEN "expanded" ELSE "leaf",
                    node |-> frame.node, state |-> frame.state,
                    cp |-> frame.cp, win_prob |-> v, evaluated |-> TRUE]
    /\ iterations' = iterations + 1
    /\ frame' = NoFrame
    /\ pc' = "s454"
    /\ UNCHANGED out
    /\ UNCHANGED others_012

\* bot012.cpp:496-510: the evaluation and the backpropagation
Check_496 ==
    /\ bot = "bot012" /\ pc = "s496"
    /\ IF timeup THEN EndSearch_012(node_pool, "s496")
       ELSE /\ \E v \in EvalValues :
                  /\ node_pool' = Backprop_001(node_pool, frame.node, v, color)
                  /\ it' = [kind |-> IF frame.new_node # 0 THEN "expanded"
                                     ELSE "leaf",
                            node |-> frame.node, state |-> frame.state,
                            cp |-> frame.cp, win_prob |-> v, evaluated |-> TRUE]
            /\ iterations' = iterations + 1
            /\ frame' = NoFrame
            /\ pc' = "s454"
            /\ UNCHANGED out
    /\ UNCHANGED others_012

Next012 ==
    \/ Search_012 \/ Check_449 \/ Check_454 \/ Check_461 \/ Check_469
    \/ Check_485 \/ Check_496
    \/ MainOutput \/ MainInput \/ DeadlinePasses

Spec012 == Init012 /\ [][Next012]_vars

\* bot001 and bot012, the engines that keep their tree between turns
InitReuse == Init001 \/ Init012

NextReuse ==
    \/ Search_001 \/ Iterate_001 \/ Return_001
    \/ Search_012 \/ Check_449 \/ Check_454 \/ Check_461 \/ Check_469
    \/ Check_485 \/ Check_496
    \/ MainOutput \/ MainInput \/ DeadlinePasses

SpecReuse == InitReuse /\ [][NextReuse]_vars

\* bot021 and bot012, the searches that return the sentinel
InitSentinel == Init021 \/ Init012

NextSentinel ==
    \/ Search_021 \/ Iterate_021 \/ Return_021
    \/ Search_012 \/ Check_449 \/ Check_454 \/ Check_461 \/ Check_469
    \/ Check_485 \/ Check_496
    \/ MainOutput \/ MainInput \/ DeadlinePasses

SpecSentinel == InitSentinel /\ [][NextSentinel]_vars

\* bot021 and bot001 side by side: the two ways of choosing the final move
InitRobust == Init021 \/ Init001

NextRobust ==
    \/ Search_021 \/ Iterate_021 \/ Return_021
    \/ Search_001 \/ Iterate_001 \/ Return_001
    \/ MainOutput \/ MainInput \/ DeadlinePasses

SpecRobust == InitRobust /\ [][NextRobust]_vars

\* the side that is enclosed in a position: no cell next to one of its
\* queens is Empty, so that it has no legal move
Stuck(state, side) ==
    \A p \in Cells : state[p] = side =>
        \A q \in Cells :
            (q # p /\ Abs(Row(p) - Row(q)) <= 1 /\ Abs(Col(p) - Col(q)) <= 1)
                => state[q] # EMPTY

\* C3: in the arena search (bot021, bot018) an iteration that ends at a node
\* whose side to move has an empty generator result scores exactly 0 when
\* that side is the searching side and exactly 1 when it is the opponent,
\* on creation of the node and on every later visit, and the evaluator is
\* not called.
C3_StuckSideLoses ==
    (bot \in {"bot021", "bot018"} /\ it.kind # "none" /\ Stuck(it.state, it.cp)) =>
        /\ ~it.evaluated
        /\ it.win_prob = (IF it.cp = color THEN 0 ELSE ONE)

\* selection has come back to a node created earlier whose side to move, the
\* opponent of the searching side, is stuck
C3_Witness ==
    /\ bot \in {"bot021", "bot018"}
    /\ it.kind = "terminal"
    /\ it.node # root
    /\ node_pool[it.node].visits >= 2
    /\ it.cp = -color
    /\ Stuck(it.state, it.cp)
    /\ it.win_prob = ONE

\* C8: the clock is read only when the iteration count is a multiple of
\* 256 (CHECK_PERIOD); a check that finds the deadline reached exits the
\* loop before another iteration starts; so at most 255 further iterations
\* start after the deadline passes, and after the last of them nothing but
\* the return is left to the search.
C8_DeadlineOvershoot ==
    /\ [](bot \in {"bot021", "bot026"} =>
            /\ late <= CHECK_PERIOD - 1
            /\ (pc = "loop" /\ late = CHECK_PERIOD - 1
                    => iterations % CHECK_PERIOD = 0))
    /\ [][(bot \in {"bot021", "bot026"} /\ pc = "loop" /\ timeup
             /\ iterations % CHECK_PERIOD = 0)
          => (pc' = "done" /\ iterations' = iterations)]_vars

\* the search has returned after starting the largest number of late
\* iterations
C8_Witness ==
    /\ bot \in {"bot021", "bot026"}
    /\ pc = "done"
    /\ late = CHECK_PERIOD - 1

\* the root children and the highest visit count among them
MaxVisits(pool, cs) ==
    IF cs = {} THEN -1
    ELSE LET c == CHOOSE c \in cs : \A d \in cs : pool[d].visits <= pool[c].visits
         IN  pool[c].visits

\* C10: in bot021 both pool pointers are 0 when a search starts, never
\* decrease during the search and never exceed MAX_NODES and MAX_MOVES_POOL;
\* no node and no move is written at or beyond capacity.
C10_PoolsWithinCapacity ==
    /\ [](bot = "bot021" =>
            /\ node_pool_ptr \in 0 .. MAX_NODES
            /\ move_pool_ptr \in 0 .. MAX_MOVES_POOL
            /\ Len(node_pool) <= MAX_NODES
            /\ Len(move_pool) <= MAX_MOVES_POOL
            /\ (pc = "main" => node_pool_ptr = 0 /\ move_pool_ptr = 0))
    /\ [][bot = "bot021" =>
            /\ node_pool_ptr' >= node_pool_ptr
            /\ move_pool_ptr' >= move_pool_ptr]_vars

\* the move pool has been filled to its last slot by a generator call that
\* had to stop early
C10_Witness ==
    /\ bot = "bot021" /\ pc = "loop"
    /\ move_pool_ptr = MAX_MOVES_POOL
    /\ it.kind = "expanded"
    /\ node_pool[it.node].moves_count < MAX_MOVES_PER_NODE
    /\ Cardinality(LegalMoves(it.state, it.cp)) > node_pool[it.node].moves_count


\* C5: when a search ends with at least one root child, the move returned is
\* that of a root child no other root child has more visits than; among the
\* children with that count it is the first one met: the first in the list
\* for the scan of bot001, and for bot021 the child that reached the count
\* first, since best_child_global is replaced only by a child whose count
\* has just become larger than every other child's.
C5_RobustChild ==
    /\ [](bot = "bot001" /\ pc = "done" /\ node_pool[root].children # <<>> =>
            LET cs == node_pool[root].children
            IN  \E k \in 1 .. Len(cs) :
                   /\ out = node_pool[cs[k]].move
                   /\ \A j \in 1 .. Len(cs) :
                         node_pool[cs[j]].visits <= node_pool[cs[k]].visits
                   /\ \A j \in 1 .. k - 1 :
                         node_pool[cs[j]].visits < node_pool[cs[k]].visits)
    /\ [](bot = "bot021" /\ pc \in {"loop", "done"}
              /\ node_pool[root].first_child # 0 =>
            /\ best_child_global # 0
            /\ node_pool[best_child_global].parent = root
            /\ node_pool[best_child_global].visits = max_visits_global
            /\ \A c \in SeqToSet(Children_021(node_pool, root)) :
                  node_pool[c].visits <= max_visits_global
            /\ pc = "done" => out = node_pool[best_child_global].move)
    /\ [][(bot = "bot021" /\ best_child_global' # best_child_global) =>
             \A c \in SeqToSet(Children_021(node_pool', root')) \ {best_child_global'} :
                node_pool'[c].visits < node_pool'[best_child_global'].visits]_vars

\* bot001 returns the first of two root children that share the highest
\* count
C5_Witness ==
    /\ bot = "bot001" /\ pc = "done"
    /\ Len(node_pool[root].children) >= 2
    /\ LET cs == node_pool[root].children
       IN  \E j, k \in 1 .. Len(cs) :
              /\ j < k
              /\ node_pool[cs[j]].visits = node_pool[cs[k]].visits
              /\ \A i \in 1 .. Len(cs) :
                    node_pool[cs[i]].visits <= node_pool[cs[j]].visits
              /\ out = node_pool[cs[j]].move

\* C7: over the turns of a match in which the opponent plays legal moves,
\* every move other than the sentinel that search of bot001 returns is a
\* legal move of the engine's side on the board of main, whether the root
\* was created by this search or kept from the previous turn's tree.
C7_ReturnedMoveLegal ==
    (bot = "bot001" /\ pc = "done" /\ out.x0 # -1) =>
        out \in LegalMoves(board, color)

\* a move returned on a later turn from a root that came from the previous
\* turn's tree with its visits
C7_Witness ==
    /\ bot = "bot001" /\ pc = "done" /\ out.x0 # -1
    /\ ply >= 2
    /\ node_pool[root].visits > iterations
    /\ out \in LegalMoves(board, color)

\* C4: in the tree-keeping searches (bot001, bot012) an iteration whose
\* expansion applies a move that leaves the side to move enclosed finds no
\* move for that side, and scores the position as a loss of that side (0
\* for the searching side, 1 for the opponent) without calling the
\* evaluator.
C4_EnclosedSideLoses ==
    (bot \in {"bot001", "bot012"} /\ it.kind = "expanded"
        /\ Stuck(it.state, it.cp)) =>
        /\ node_pool[it.node].untried_moves = <<>>
        /\ ~it.evaluated
        /\ it.win_prob = (IF it.cp = color THEN 0 ELSE ONE)

\* C6: search (bot021, bot012) returns the sentinel exactly when the root has
\* no children at the end of the search, and then the root position has no
\* legal move or the deadline passed before an iteration was completed;
\* otherwise it returns the move of a root child.
C6_SentinelOnlyWithoutMove ==
    (bot \in {"bot021", "bot012"} /\ pc = "done") =>
        LET cs == IF bot = "bot021" THEN Children_021(node_pool, root)
                  ELSE node_pool[root].children
        IN  /\ (out = NoMove) <=> (cs = <<>>)
            /\ out = NoMove => (Stuck(board, color) \/ iterations = 0)
            /\ out # NoMove => \E k \in 1 .. Len(cs) : out = node_pool[cs[k]].move

CheckPoints_012 == {"s449", "s454", "s461", "s469", "s485", "s496"}

\* C9: in search of bot012 every step starts with a read of the clock, and a
\* step taken once the clock has reached the deadline goes to the final-move
\* selection at once: no node is selected, created or given moves, nothing
\* is evaluated or backed up, and the only change to the tree is the
\* deletion of the node that was not yet attached.
C9_DeadlineStopsWork ==
    /\ [](bot = "bot012" =>
            pc \in CheckPoints_012 \cup {"main", "done", "wait", "exit", "crashed"})
    /\ [][(bot = "bot012" /\ pc \in CheckPoints_012 /\ timeup) =>
             /\ pc' = "done"
             /\ out' = FinalMove_001(node_pool', root')
             /\ iterations' = iterations
             /\ it' = it
             /\ root' = root
             /\ Len(node_pool') = Len(node_pool)
             /\ \A a \in 1 .. Len(node_pool) :
                   \/ node_pool'[a] = node_pool[a]
                   \/ pc = "s485" /\ a = frame.new_node /\ node_pool'[a] = Freed]_vars

\* the deadline found passed before the move generation for a new child, on
\* a search that returns a move
C9_Witness ==
    /\ bot = "bot012" /\ pc = "done"
    /\ "aborted" \in DOMAIN frame
    /\ frame.aborted = "s485"
    /\ iterations >= 1
    /\ out.x0 # -1

(***************************************************************************)
(* double: the evaluators accumulate their position components in IEEE     *)
(* binary64 (round to nearest, ties to even).  Every value met there is a  *)
(* multiple of 2^-55 below 2^7: the terms are k / m with 0 < |k| <= 64 and *)
(* 2 <= m <= 7, powers of two and small integers, and a sum of multiples   *)
(* of 2^-55 that is smaller than 2^-2 is exact.  A double is held as its   *)
(* sign and the magnitude in units of 2^-55, written in three limbs of 27  *)
(* bits: [neg, a2, a1, a0] is (a2 * 2^54 + a1 * 2^27 + a0) * 2^-55.        *)
(***************************************************************************)
LIMB == 2^27

DblZero == [neg |-> FALSE, a2 |-> 0, a1 |-> 0, a0 |-> 0]

\* carry propagation
DblNorm(l2, l1, l0) ==
    LET c0 == l0 \div LIMB
        c1 == (l1 + c0) \div LIMB
    IN  [a2 |-> l2 + c1, a1 |-> (l1 + c0) % LIMB, a0 |-> l0 % LIMB]

BitLen(n) == Cardinality({k \in 0 .. 27 : 2^k <= n})

MagBits(m) ==
    IF m.a2 > 0 THEN 54 + BitLen(m.a2)
    ELSE IF m.a1 > 0 THEN 27 + BitLen(m.a1)
    ELSE BitLen(m.a0)

\* the magnitude m followed by a fraction of a unit (frac is "zero", "below",
\* "half" or "above" half a unit), rounded to 53 significant bits
DblRound(m, frac) ==
    LET bits == MagBits(m)
        drop == IF bits > 53 THEN bits - 53 ELSE 0
        p    == 2^drop
        low  == m.a0 % p
        odd  == (m.a0 \div p) % 2 = 1
        up   == IF drop = 0
                THEN frac = "above" \/ (frac = "half" /\ odd)
                ELSE \/ 2 * low > p
                     \/ 2 * low = p /\ (frac # "zero" \/ odd)
    IN  IF up THEN DblNorm(m.a2, m.a1, m.a0 - low + p)
        ELSE [a2 |-> m.a2, a1 |-> m.a1, a0 |-> m.a0 - low]

MagLess(x, y) ==
    \/ x.a2 < y.a2
    \/ x.a2 = y.a2 /\ x.a1 < y.a1
    \/ x.a2 = y.a2 /\ x.a1 = y.a1 /\ x.a0 < y.a0

MagSub(x, y) ==
    LET d0 == x.a0 - y.a0
        b0 == IF d0 < 0 THEN 1 ELSE 0
        d1 == x.a1 - y.a1 - b0
        b1 == IF d1 < 0 THEN 1 ELSE 0
    IN  [a2 |-> x.a2 - y.a2 - b1, a1 |-> d1 + b1 * LIMB, a0 |-> d0 + b0 * LIMB]

Dbl(neg, m) ==
    IF m.a2 = 0 /\ m.a1 = 0 /\ m.a0 = 0 THEN DblZero
    ELSE [neg |-> neg, a2 |-> m.a2, a1 |-> m.a1, a0 |-> m.a0]

\* x + y
DblAdd(x, y) ==
    IF x.neg = y.neg
    THEN Dbl(x.neg, DblRound(DblNorm(x.a2 + y.a2, x.a1 + y.a1, x.a0 + y.a0),
                              "zero"))
    ELSE IF MagLess(x, y) THEN Dbl(y.neg, DblRound(MagSub(y, x), "zero"))
    ELSE Dbl(x.neg, DblRound(MagSub(x, y), "zero"))

DblNeg(x) == Dbl(~x.neg, x)

\* x - y
DblSub(x, y) == DblAdd(x, DblNeg(y))

\* (double) k / (double) m for integers 0 <= |k| <= 64 and 2 <= m <= 7:
\* long division of |k| * 2^55, then the rounding
DblDiv(k, m) ==
    LET n2 == 2 * Abs(k)
        q2 == n2 \div m
        t1 == (n2 % m) * LIMB
        q1 == t1 \div m
        t0 == (t1 % m) * LIMB
        q0 == t0 \div m
        r0 == t0 % m
        frac == IF r0 = 0 THEN "zero"
                ELSE IF 2 * r0 < m THEN "below"
                ELSE IF 2 * r0 = m THEN "half" ELSE "above"
    IN  Dbl(k < 0, DblRound(DblNorm(q2, q1, q0), frac))

\* (double) k for an integer |k| < 2^26
DblInt(k) == Dbl(k < 0, [a2 |-> 2 * Abs(k), a1 |-> 0, a0 |-> 0])

\* 2^-d for 1 <= d <= 10
DblPow2(d) ==
    IF d = 1 THEN [neg |-> FALSE, a2 |-> 1, a1 |-> 0, a0 |-> 0]
    ELSE [neg |-> FALSE, a2 |-> 0, a1 |-> 2^(28 - d), a0 |-> 0]

\* (double) n * 2^-i for integers 0 <= n < 2^26 and 1 <= i <= 10
DblScaled(n, i) ==
    Dbl(FALSE, [a2 |-> n \div 2^(i - 1),
                a1 |-> (n % 2^(i - 1)) * 2^(28 - i), a0 |-> 0])

(***************************************************************************)
(* The evaluator of bot021 (bot012 has the same passes over its own static *)
(* buffers, with the directions in the order of bot001): two flood fills   *)
(* over king steps, one pass over the cells, one mobility pass.  A fill is *)
(* given the contents the buffers were left with; st is <<dist_out,        *)
(* bfs_queue, tail>> while it runs, dirs the DIRECTIONS table.  The value  *)
(* returned is a function of the five components and of the row of the     *)
(* weight table (bot021.cpp:369-373, bot012.cpp:410-420): it is kept as    *)
(* that pair.                                                              *)
(***************************************************************************)
RECURSIVE SeqSum(_)
SeqSum(q) == IF q = <<>> THEN 0 ELSE Head(q) + SeqSum(Tail(q))

\* a loop over the sources that pushes every source twice
RECURSIVE BfsSeed_Twice(_, _, _)
BfsSeed_Twice(sources, st, i) ==
    IF i > Len(sources) THEN st
    ELSE BfsSeed_Twice(sources,
             [dist  |-> [st.dist EXCEPT ![sources[i]] = 0],
              queue |-> [st.queue EXCEPT ![st.tail] = sources[i],
                                         ![st.tail + 1] = sources[i]],
              tail  |-> st.tail + 2],
             i + 1)

\* the loop over the sources, bot021.cpp:257-261
RECURSIVE BfsSeed(_, _, _)
BfsSeed(sources, st, i) ==
    IF i > Len(sources) THEN st
    ELSE BfsSeed(sources,
             [dist  |-> [st.dist EXCEPT ![sources[i]] = 0],
              queue |-> [st.queue EXCEPT ![st.tail] = sources[i]],
              tail  |-> st.tail + 1],
             i + 1)

\* a loop over the neighbours that enters every cell of the grid
RECURSIVE BfsDirs_AnyCell(_, _, _, _, _, _, _)
BfsDirs_AnyCell(grid, st, cx, cy, d, i, dirs) ==
    IF i > 8 THEN st
    ELSE LET nx == cx + dirs[i][1]
             ny == cy + dirs[i][2]
             n_idx == nx * 8 + ny
         IN  IF is_valid(nx, ny) /\ st.dist[n_idx] > d
             THEN BfsDirs_AnyCell(grid,
                      [dist  |-> [st.dist EXCEPT ![n_idx] = d],
                       queue |-> [st.queue EXCEPT ![st.tail] = n_idx],
                       tail  |-> st.tail + 1],
                      cx, cy, d, i + 1, dirs)
             ELSE BfsDirs_AnyCell(grid, st, cx, cy, d, i + 1, dirs)

\* the loop over the eight neighbours of (cx, cy), bot021.cpp:269-280
RECURSIVE BfsDirs(_, _, _, _, _, _, _)
BfsDirs(grid, st, cx, cy, d, i, dirs) ==
    IF i > 8 THEN st
    ELSE LET nx == cx + dirs[i][1]
             ny == cy + dirs[i][2]
             n_idx == nx * 8 + ny
         IN  IF is_valid(nx, ny) /\ grid[n_idx] = EMPTY /\ st.dist[n_idx] > d
             THEN BfsDirs(grid,
                      [dist  |-> [st.dist EXCEPT ![n_idx] = d],
                       queue |-> [st.queue EXCEPT ![st.tail] = n_idx],
                       tail  |-> st.tail + 1],
                      cx, cy, d, i + 1, dirs)
             ELSE BfsDirs(grid, st, cx, cy, d, i + 1, dirs)

\* while (head < tail), bot021.cpp:263-282
RECURSIVE BfsLoop(_, _, _, _)
BfsLoop(grid, st, head, dirs) ==
    IF ~(head < st.tail) THEN st
    ELSE LET curr == st.queue[head]
         IN  BfsLoop(grid,
                 BfsDirs(grid, st, curr \div 8, curr % 8, st.dist[curr] + 1,
                         1, dirs),
                 head + 1, dirs)

run_bfs(grid, sources, dist_out, bfs_queue) ==
    BfsLoop(grid,
        BfsSeed(sources,
            [dist |-> [i \in Cells |-> 99], queue |-> bfs_queue, tail |-> 0], 1),
        0, DIRECTIONS_021)

\* a ray that counts the cell next to the piece only
MobilityRay_021_OneStep(grid, nx, ny, d) ==
    IF ~is_valid(nx, ny) THEN 0
    ELSE IF grid[nx * 8 + ny] # EMPTY THEN 0
    ELSE 1

\* the inner while of calc_mobility, bot021.cpp:293-298
RECURSIVE MobilityRay_021(_, _, _, _)
MobilityRay_021(grid, nx, ny, d) ==
    IF ~is_valid(nx, ny) THEN 0
    ELSE IF grid[nx * 8 + ny] # EMPTY THEN 0
    ELSE 1 + MobilityRay_021(grid, nx + DIRECTIONS_021[d][1],
                             ny + DIRECTIONS_021[d][2], d)

calc_mobility_021(grid, pieces) ==
    SeqSum([k \in 1 .. (8 * Len(pieces)) |->
               LET p == pieces[((k - 1) \div 8) + 1]
                   d == ((k - 1) % 8) + 1
               IN  MobilityRay_021(grid, (p \div 8) + DIRECTIONS_021[d][1],
                                   (p % 8) + DIRECTIONS_021[d][2], d)])

\* one pass of the loop over the cells, bot021.cpp:347-365; scores is the
\* double scores[5], lim the length of POW2
ScoreCell(grid, dist_my, dist_op, i, scores, lim) ==
    LET dm == dist_my[i]
        do == dist_op[i]
        s0 == IF dm < do THEN DblAdd(scores[1], DblInt(1))
              ELSE IF do < dm THEN DblSub(scores[1], DblInt(1))
              ELSE scores[1]
        s1 == IF dm < do /\ dm < 4 THEN DblAdd(scores[2], DblInt(4 - dm))
              ELSE IF do < dm /\ do < 4 THEN DblSub(scores[2], DblInt(4 - do))
              ELSE scores[2]
        s2a == IF dm < lim THEN DblAdd(scores[3], DblPow2(dm)) ELSE scores[3]
        s2  == IF do < lim THEN DblSub(s2a, DblPow2(do)) ELSE s2a
        s3a == IF dm < 6 THEN DblAdd(scores[4], DblDiv(1, dm + 1)) ELSE scores[4]
        s3  == IF do < 6 THEN DblSub(s3a, DblDiv(1, do + 1)) ELSE s3a
    IN  IF grid[i] # EMPTY THEN scores
        ELSE IF dm = 99 /\ do = 99 THEN scores
        ELSE <<s0, s1, s2, s3, scores[5]>>

\* the loop over the cells; cells are the cells it does not skip at its
\* first test, in loop order
RECURSIVE ScoreCells(_, _, _, _, _, _, _)
ScoreCells(grid, dist_my, dist_op, cells, k, scores, lim) ==
    IF k > Len(cells) THEN scores
    ELSE ScoreCells(grid, dist_my, dist_op, cells, k + 1,
                    ScoreCell(grid, dist_my, dist_op, cells[k], scores, lim),
                    lim)

NoScores == <<DblZero, DblZero, DblZero, DblZero, DblZero>>

\* the row of the weight table, bot021.cpp:369 and bot012.cpp:260-265
WeightRow(turn) == IF turn >= 28 THEN 27 ELSE turn

\* evaluate(), bot021.cpp:330-374: the value returned and the buffers left
evaluate_021(grid, root_player, turn, sc) ==
    LET my_pieces  == PieceCells(grid, root_player)
        opp_pieces == PieceCells(grid, -root_player)
        my  == run_bfs(grid, my_pieces, sc.dist_my, sc.bfs_queue)
        op  == run_bfs(grid, opp_pieces, sc.dist_op, my.queue)
        scores == ScoreCells(grid, my.dist, op.dist, PieceCells(grid, EMPTY), 1,
                             NoScores, 9)
        mob == calc_mobility_021(grid, my_pieces)
                   - calc_mobility_021(grid, opp_pieces)
    IN  [ret |-> [idx |-> WeightRow(turn),
                  scores |-> [scores EXCEPT ![5] = DblInt(mob)]],
         scratch |-> [sc EXCEPT !.dist_my = my.dist, !.dist_op = op.dist,
                                !.bfs_queue = op.queue]]

\* the inner while of calc_mobility, bot001.cpp:262-268 and bot012.cpp:326-332
RECURSIVE MobilityRay_001(_, _, _, _, _)
MobilityRay_001(grid, nx, ny, d, steps) ==
    IF is_valid(nx, ny) /\ grid[nx * 8 + ny] = EMPTY /\ steps < 7
    THEN 1 + MobilityRay_001(grid, nx + DIRECTIONS_001[d][1],
                             ny + DIRECTIONS_001[d][2], d, steps + 1)
    ELSE 0

calc_mobility_001(grid, pieces) ==
    SeqSum([k \in 1 .. (8 * Len(pieces)) |->
               LET p == pieces[((k - 1) \div 8) + 1]
                   d == ((k - 1) % 8) + 1
               IN  MobilityRay_001(grid, (p \div 8) + DIRECTIONS_001[d][1],
                                   (p % 8) + DIRECTIONS_001[d][2], d, 0)])

\* perform_fast_bfs, bot012.cpp:272-312: bfs_q.clear() sets head and tail to
\* 0; a queue slot holds the cell qx * 8 + qy
perform_fast_bfs(grid, pieces, dist_out, bfs_q) ==
    BfsLoop(grid,
        BfsSeed(pieces,
            [dist |-> [i \in Cells |-> 99], queue |-> bfs_q, tail |-> 0], 1),
        0, DIRECTIONS_001)

\* the static vectors kept from the last call: the pieces are appended
evaluate_optimized_NoClear(grid, root_player, turn, sc) ==
    LET my_pieces  == sc.my_pieces \o PieceCells(grid, root_player)
        opp_pieces == sc.opp_pieces \o PieceCells(grid, -root_player)
        my  == perform_fast_bfs(grid, my_pieces, sc.dist_my, sc.bfs_queue)
        op  == perform_fast_bfs(grid, opp_pieces, sc.dist_op, my.queue)
        scores == ScoreCells(grid, my.dist, op.dist, PieceCells(grid, EMPTY), 1,
                             NoScores, 10)
        mob == calc_mobility_001(grid, my_pieces)
                   - calc_mobility_001(grid, opp_pieces)
    IN  [ret |-> [idx |-> WeightRow(turn),
                  scores |-> [scores EXCEPT ![5] = DblInt(mob)]],
         scratch |-> [dist_my |-> my.dist, dist_op |-> op.dist,
                      bfs_queue |-> op.queue, head |-> op.tail,
                      tail |-> op.tail,
                      my_pieces |-> my_pieces, opp_pieces |-> opp_pieces]]

\* evaluate_optimized(), bot012.cpp:339-422; turn is the member turn_number
evaluate_optimized(grid, root_player, turn, sc) ==
    LET my_pieces  == PieceCells(grid, root_player)
        opp_pieces == PieceCells(grid, -root_player)
        my  == perform_fast_bfs(grid, my_pieces, sc.dist_my, sc.bfs_queue)
        op  == perform_fast_bfs(grid, opp_pieces, sc.dist_op, my.queue)
        scores == ScoreCells(grid, my.dist, op.dist, PieceCells(grid, EMPTY), 1,
                             NoScores, 10)
        mob == calc_mobility_001(grid, my_pieces)
                   - calc_mobility_001(grid, opp_pieces)
    IN  [ret |-> [idx |-> WeightRow(turn),
                  scores |-> [scores EXCEPT ![5] = DblInt(mob)]],
         scratch |-> [dist_my |-> my.dist, dist_op |-> op.dist,
                      bfs_queue |-> op.queue, head |-> op.tail,
                      tail |-> op.tail,
                      my_pieces |-> my_pieces, opp_pieces |-> opp_pieces]]

(***************************************************************************)
(* The evaluator of bot001: the flood fill keeps its distances and its     *)
(* queue of (cell, distance) in locals and counts the cells it reaches by  *)
(* distance; by_dist[d] = 0 stands for a key the map does not hold.        *)
(***************************************************************************)
\* the loop over the eight neighbours, bot001.cpp:223-234
RECURSIVE TerritoryDirs(_, _, _, _, _, _)
TerritoryDirs(grid, st, x, y, nd, i) ==
    IF i > 8 THEN st
    ELSE LET nx == x + DIRECTIONS_001[i][1]
             ny == y + DIRECTIONS_001[i][2]
             n == nx * 8 + ny
         IN  IF is_valid(nx, ny) /\ grid[n] = EMPTY /\ st.dist[n] > nd
             THEN TerritoryDirs(grid,
                      [dist |-> [st.dist EXCEPT ![n] = nd],
                       q |-> Append(st.q, <<n, nd>>),
                       by_dist |-> [st.by_dist EXCEPT ![nd] = @ + 1]],
                      x, y, nd, i + 1)
             ELSE TerritoryDirs(grid, st, x, y, nd, i + 1)

\* while (!q.empty()), bot001.cpp:217-235
RECURSIVE TerritoryLoop(_, _)
TerritoryLoop(grid, st) ==
    IF st.q = <<>> THEN st
    ELSE LET h == Head(st.q)
         IN  TerritoryLoop(grid,
                 TerritoryDirs(grid, [st EXCEPT !.q = Tail(@)],
                               h[1] \div 8, h[1] % 8, h[2] + 1, 1))

\* bfs_territory, bot001.cpp:200-238
bfs_territory(grid, pieces) ==
    TerritoryLoop(grid,
        [dist |-> [i \in Cells |-> IF i \in SeqToSet(pieces) THEN 0 ELSE 99],
         q |-> [k \in 1 .. Len(pieces) |-> <<pieces[k], 0>>],
         by_dist |-> [d \in 1 .. NUM_SQUARES |-> 0]])

\* calc_position_score, bot001.cpp:240-252
RECURSIVE calc_position_score(_, _, _)
calc_position_score(dist_map, i, score) ==
    IF ~(i < 8) THEN score
    ELSE calc_position_score(dist_map, i + 1,
             DblAdd(score,
                    DblScaled(Cardinality({c \in Cells : dist_map[c] = i}), i)))

\* the loop of component 4, bot001.cpp:310-320
RECURSIVE KingPosition_001(_, _, _, _)
KingPosition_001(my_dist, opp_dist, d, king_position) ==
    IF ~(d < 7) THEN king_position
    ELSE LET my_count  == Cardinality({c \in Cells : my_dist[c] = d})
             opp_count == Cardinality({c \in Cells : opp_dist[c] = d})
         IN  KingPosition_001(my_dist, opp_dist, d + 1,
                 DblAdd(king_position, DblDiv(my_count - opp_count, d + 1)))

\* get_phase_weights, bot001.cpp:190-194
get_phase_weights(turn) ==
    IF turn <= 10 THEN "EARLY_WEIGHTS"
    ELSE IF turn <= 20 THEN "MID_WEIGHTS" ELSE "LATE_WEIGHTS"

\* evaluate_multi_component(), bot001.cpp:276-341
evaluate_multi_component(grid, root_player, turn, sc) ==
    LET my_pieces  == PieceCells(grid, root_player)
        opp_pieces == PieceCells(grid, -root_player)
        my_q  == bfs_territory(grid, my_pieces)
        opp_q == bfs_territory(grid, opp_pieces)
        queen_territory == SeqSum(my_q.by_dist) - SeqSum(opp_q.by_dist)
        king_territory ==
            SeqSum([d \in 1 .. 3 |->
                       (my_q.by_dist[d] - opp_q.by_dist[d]) * (4 - d)])
        queen_position ==
            DblSub(calc_position_score(my_q.dist, 1, DblZero),
                   calc_position_score(opp_q.dist, 1, DblZero))
        king_position == KingPosition_001(my_q.dist, opp_q.dist, 1, DblZero)
        mobility == calc_mobility_001(grid, my_pieces)
                        - calc_mobility_001(grid, opp_pieces)
    IN  [ret |-> [idx |-> get_phase_weights(turn),
                  scores |-> <<DblInt(queen_territory), DblInt(king_territory),
                               queen_position, king_position,
                               DblInt(mobility)>>],
         scratch |-> sc]

(***************************************************************************)
(* SpecEval: one evaluator called again and again, as the search calls it  *)
(* on one position after another.  board, color and turn_number are the    *)
(* inputs of the call under way, ply counts the calls, out is the call     *)
(* that returned last and it the call before it.  The positions are the    *)
(* root boards of the arena search on the cells of EvalRegion.             *)
(***************************************************************************)
MaxCalls == 2

EvalTurns == {11, 28}

\* the cells (0,3), (1,3), (1,4) that may be Empty on the boards evaluated
EvalRegion == {3, 11, 12}

NoCall == [kind |-> "none"]

InitEval ==
    /\ bot \in {"bot021", "bot012", "bot001"}
    /\ board = init_board
    /\ color = BLACK
    /\ pc = "ret"
    /\ out = NoCall
    /\ prev = init_board
    /\ last = NoMove
    /\ ply = 0
    /\ NoSearch

\* the caller moves on to the next position
NextPosition ==
    /\ pc = "ret"
    /\ ply < MaxCalls
    /\ \E E \in SUBSET EvalRegion : board' = RootBoard(E)
    /\ color' \in Sides
    /\ turn_number' \in EvalTurns
    /\ ply' = ply + 1
    /\ pc' = "call"
    /\ it' = NoIteration
    /\ UNCHANGED <<bot, out, prev, last, poolVars, root, iterations,
                   allow_expand, best_child_global, max_visits_global, timeup,
                   late, frame, scratch>>

\* the call returns res.ret and leaves res.scratch in the static buffers
Returned(res) ==
    /\ it' = out
    /\ out' = [board |-> board, root_player |-> color, turn |-> turn_number,
               ret |-> res.ret]
    /\ scratch' = res.scratch
    /\ pc' = "ret"
    /\ UNCHANGED <<bot, gameVars, poolVars, root, iterations, allow_expand,
                   best_child_global, max_visits_global, timeup, late, frame,
                   turn_number>>

Evaluate_021 ==
    /\ bot = "bot021" /\ pc = "call"
    /\ Returned(evaluate_021(board, color, turn_number, scratch))

Evaluate_012 ==
    /\ bot = "bot012" /\ pc = "call"
    /\ Returned(evaluate_optimized(board, color, turn_number, scratch))

Evaluate_001 ==
    /\ bot = "bot001" /\ pc = "call"
    /\ Returned(evaluate_multi_component(board, color, turn_number, scratch))

NextEval == NextPosition \/ Evaluate_021 \/ Evaluate_012 \/ Evaluate_001

SpecEval == InitEval /\ [][NextEval]_vars

\* C12: on every board each of the five raw components of the evaluator of
\* bot021 and of bot001 computed for one side is the negation of the same
\* component computed for the other side.
C12_ComponentsAntisymmetric ==
    (/\ bot \in {"bot021", "bot001"} /\ pc = "ret" /\ ply >= 2
     /\ it.board = out.board /\ it.root_player = -out.root_player)
        => \A i \in 1 .. 5 : out.ret.scores[i] = DblNeg(it.ret.scores[i])

\* the value the call that returned last would return in a process that has
\* made no call before
FreshValue ==
    IF bot = "bot021"
    THEN evaluate_021(out.board, out.root_player, out.turn, ZeroScratch).ret
    ELSE evaluate_optimized(out.board, out.root_player, out.turn,
                            ZeroScratch).ret

\* C17: whatever earlier calls left in dist_my, dist_op, the queue and the
\* static piece vectors, a call of the evaluator of bot021 or bot012 returns
\* the value that its board, side and move number give in a fresh process,
\* and two calls in a row with the same three inputs return the same value.
C17_EvaluatorDeterministic ==
    (bot \in {"bot021", "bot012"} /\ pc = "ret" /\ ply >= 1) =>
        /\ out.ret = FreshValue
        /\ (/\ ply >= 2 /\ it.board = out.board
            /\ it.root_player = out.root_player /\ it.turn = out.turn)
               => it.ret = out.ret

\* a call of bot012 made after a call on another board for the other side,
\* which left other distances and other pieces behind and returned another
\* value
C17_Witness ==
    /\ bot = "bot012" /\ pc = "ret" /\ ply >= 2
    /\ it.board # out.board
    /\ it.root_player = -out.root_player
    /\ it.ret.scores # out.ret.scores
    /\ scratch.dist_my # scratch.dist_op

\* bot012 on boards where the tree it keeps for its second turn can hold a
\* child that was attached but never visited: the cells (0,1), (1,4), (2,4)
\* and (3,3) may be Empty
CarryRegion == {1, 12, 20, 27}

InitCarry ==
    \/ Init021
    \/ /\ bot = "bot012"
       /\ \E E \in SUBSET CarryRegion : board = RootBoard(E)
       /\ color \in Sides
       /\ pc = "main"
       /\ out = NoMove
       /\ prev = board
       /\ last = NoMove
       /\ ply = 0
       /\ NoSearch

SpecCarry == InitCarry /\ [][NextSentinel]_vars

\* the nodes from n up to the root of its tree, n first
RECURSIVE ParentChain(_, _)
ParentChain(pool, n) ==
    IF n = 0 THEN <<>> ELSE <<n>> \o ParentChain(pool, pool[n].parent)

\* child c, taken by a selection among the children cs, had no visit while
\* one of cs had one
UnvisitedOverVisited(pool, cs, c) ==
    pool[c].visits = 0 /\ \E s \in cs : pool[s].visits >= 1

\* the node the selection loop of the iteration just made in bot021 ended in
Selected_021 ==
    IF it'.kind = "expanded" THEN node_pool'[it'.node].parent ELSE it'.node

\* C13: no step of a selection loop takes a child without visits while the
\* node it selects from has a child with a visit: in bot021 for every node
\* on the path an iteration went down, in bot012 for every call of
\* uct_select_child, also in a tree kept from the turn before.
C13_VisitedBeforeUnvisited ==
    [][/\ (bot = "bot021" /\ pc = "loop" /\ iterations' = iterations + 1) =>
            \A c \in SeqToSet(ParentChain(node_pool, Selected_021)) :
                node_pool[c].parent # 0 =>
                    ~UnvisitedOverVisited(node_pool,
                        SeqToSet(Children_021(node_pool, node_pool[c].parent)), c)
       /\ (bot = "bot012" /\ pc = "s461" /\ pc' \in {"s461", "s469", "s496"}) =>
            ~UnvisitedOverVisited(node_pool,
                SeqToSet(node_pool[frame.node].children), frame'.node)
      ]_vars

\* bot012 has just selected a child with a visit whose sibling has none, in
\* a tree kept from the turn before
C13_Witness ==
    /\ bot = "bot012" /\ pc \in {"s461", "s469", "s496"}
    /\ ply >= 2
    /\ frame.node # 0 /\ frame.node # root /\ frame.new_node = 0
    /\ node_pool[frame.node].visits >= 1
    /\ \E s \in SeqToSet(node_pool[node_pool[frame.node].parent].children) :
           node_pool[s].visits = 0


(***************************************************************************)
(* SpecStart: the start layout of bot001.  The grid member of a Board is   *)
(* raw memory until the constructor has run (bot001.cpp:44-51): it clears  *)
(* the 64 cells and calls init_board, which writes the eight pieces.  The  *)
(* generator is then run for the side that moves first and for the other   *)
(* side.  prev keeps the memory the constructor found.                     *)
(***************************************************************************)
\* the cells of the raw memory that hold anything but 0
RawCells == {2, 3, 11, 58}

\* Board::init_board, bot001.cpp:54-65: eight writes
init_board_001(grid) ==
    [grid EXCEPT ![0 * 8 + 2] = BLACK, ![2 * 8 + 0] = BLACK,
                 ![5 * 8 + 0] = BLACK, ![7 * 8 + 2] = BLACK,
                 ![0 * 8 + 5] = WHITE, ![2 * 8 + 7] = WHITE,
                 ![5 * 8 + 7] = WHITE, ![7 * 8 + 5] = WHITE]

\* a constructor that leaves the memory as it found it
Board_001_NoClear(raw) == init_board_001(raw)

\* Board::Board, bot001.cpp:44-51
Board_001(raw) == init_board_001([i \in Cells |-> EMPTY])

InitStart ==
    /\ bot = "start"
    /\ \E f \in [RawCells -> {EMPTY, BLACK, WHITE, OBSTACLE}] :
          board = [i \in Cells |-> IF i \in RawCells THEN f[i] ELSE EMPTY]
    /\ color = BLACK
    /\ pc = "raw"
    /\ out = <<>>
    /\ prev = EmptyGrid
    /\ last = NoMove
    /\ ply = 0
    /\ NoSearch

Construct ==
    /\ bot = "start" /\ pc = "raw"
    /\ board' = Board_001(board)
    /\ prev' = board
    /\ pc' = "built"
    /\ UNCHANGED <<bot, evalVars, out, color, last, ply, poolVars, searchVars>>

\* get_legal_moves for the side that moves first, then for the other side
CountMoves ==
    /\ bot = "start" /\ pc = "built"
    /\ out' = [first |-> Len(get_legal_moves_001(board, color)),
               other |-> Len(get_legal_moves_001(board, -color))]
    /\ pc' = "counted"
    /\ UNCHANGED <<bot, evalVars, gameVars, poolVars, searchVars>>

NextStart == Construct \/ CountMoves

SpecStart == InitStart /\ [][NextStart]_vars

\* the number of moves of the side that moves first on the layout
\* init_board describes
StartCount == Len(get_legal_moves_001(init_board, BLACK))

\* C14: on the layout the constructor builds, whatever the memory held
\* before, the generator returns for the side that moves first a number of
\* moves that is positive, always the same, and the number it returns for
\* the other side.
C14_StartCountsEqual ==
    (bot = "start" /\ pc = "counted") =>
        /\ out.first > 0
        /\ out.first = StartCount
        /\ out.first = out.other

\* the counts were taken on a Board built over memory that held pieces and
\* an Obstacle
C14_Witness ==
    /\ bot = "start" /\ pc = "counted"
    /\ out.first > 0
    /\ \E i, j \in RawCells : prev[i] = OBSTACLE /\ prev[j] = WHITE
    /\ board = init_board


(***************************************************************************)
(* SpecReplay: the history replay of bot021's main (bot021.cpp:506-535).   *)
(* A game of at most MaxPly moves is recorded line by line in out, with    *)
(* the request line -1 -1 -1 -1 -1 -1 in front when the program plays      *)
(* Black; main then builds a Board and replays the lines, the evaluator    *)
(* fills its buffers, and main replays the same lines once more in the     *)
(* memory the first Board was in.  prev keeps the board of the first       *)
(* replay.                                                                 *)
(***************************************************************************)
\* the number of moves a side chooses from, and of lines bot001 reads in
\* its loop
MaxChoice == 2
MaxRead == 1

\* the moves the search may return: the first moves of the generator
SearchMoves(grid, side) ==
    SeqToSet(get_legal_moves_021(grid, side, 0, MaxChoice))

\* a replay onto the grid the last turn left
Board_021_Stale(raw) == raw

\* Board::Board, bot021.cpp:89-92; raw is the memory the object is built in
Board_021(raw) == init_board

\* the replay loop, bot021.cpp:528-535: a line that starts with -1 is
\* skipped, every other line is applied
RECURSIVE ReplayLines(_, _, _)
ReplayLines(grid, lines, i) ==
    IF i > Len(lines) THEN grid
    ELSE IF lines[i].x0 = -1 THEN ReplayLines(grid, lines, i + 1)
    ELSE ReplayLines(apply_move(grid, lines[i]), lines, i + 1)

InitReplay ==
    /\ bot = "replay"
    /\ board = init_board
    /\ color = BLACK
    /\ pc = "record"
    /\ out \in {<<>>, <<NoMove>>}
    /\ prev = init_board
    /\ last = NoMove
    /\ ply = 0
    /\ NoSearch

\* one more line of the history: a move the side to move can make
Record ==
    /\ bot = "replay" /\ pc = "record"
    /\ ply < MaxPly
    /\ \E m \in SearchMoves(board, color) :
          /\ last' = m
          /\ board' = apply_move(board, m)
          /\ out' = Append(out, m)
    /\ color' = -color
    /\ ply' = ply + 1
    /\ UNCHANGED <<bot, evalVars, pc, prev, poolVars, searchVars>>

\* the history is handed to the program; board is from now on the memory
\* of main's Board, which holds zeros or what an earlier Board left there
Handed ==
    /\ bot = "replay" /\ pc = "record"
    /\ board' \in {EmptyGrid, init_board}
    /\ pc' = "input1"
    /\ UNCHANGED <<bot, evalVars, out, color, prev, last, ply, poolVars,
                   searchVars>>

\* main up to the end of the replay loop
Replay_021 ==
    /\ bot = "replay" /\ pc \in {"input1", "input2"}
    /\ board' = ReplayLines(Board_021(board), out, 1)
    /\ prev' = board
    /\ pc' = IF pc = "input1" THEN "replayed1" ELSE "replayed2"
    /\ UNCHANGED <<bot, evalVars, out, color, last, ply, poolVars, searchVars>>

\* the evaluator fills its distance buffers on the replayed board,
\* bot021.cpp:338-339
EvaluateReplayed ==
    /\ bot = "replay" /\ pc = "replayed1"
    /\ turn_number' = Len(out)
    /\ \E my \in {run_bfs(board, PieceCells(board, color), scratch.dist_my,
                          scratch.bfs_queue)} :
       \E op \in {run_bfs(board, PieceCells(board, -color), scratch.dist_op,
                          my.queue)} :
          scratch' = [scratch EXCEPT !.dist_my = my.dist, !.dist_op = op.dist,
                                     !.bfs_queue = op.queue]
    /\ pc' = "input2"
    /\ UNCHANGED <<bot, out, gameVars, poolVars, searchVars>>

NextReplay == Record \/ Handed \/ Replay_021 \/ EvaluateReplayed

SpecReplay == InitReplay /\ [][NextReplay]_vars

Kept == {4, 5}

\* values an int that was never written, or a vector element past the end,
\* can hold: one inside the grid, one outside
Garbage == {0, 9}

LineOf(m) == [parts |-> <<m.x0, m.y0, m.x1, m.y1, m.x2, m.y2>>, junk |-> FALSE]

CutLine(l, k, junk) == [parts |-> SubSeq(l.parts, 1, k), junk |-> junk]

WellFormed(l) == Len(l.parts) = 6

\* int c[6] after the extractions of bot021.cpp:531-534: the integers that
\* parsed; 0 where an extraction met text that is no integer; the rest was
\* never written
Coords_021(l) ==
    { c \in [1 .. 6 -> Garbage \cup SeqToSet(l.parts)] :
        /\ \A k \in 1 .. Len(l.parts) : c[k] = l.parts[k]
        /\ (l.junk /\ Len(l.parts) < 6) => c[Len(l.parts) + 1] = 0 }

\* coords[0] .. coords[5] of bot001.cpp:495-502: the integers that parsed,
\* then whatever lies behind the end of the vector
Coords_001(l) ==
    { c \in [1 .. 6 -> Garbage \cup SeqToSet(l.parts)] :
        \A k \in 1 .. Len(l.parts) : c[k] = l.parts[k] }

\* a write through an index that may lie outside the grid
WriteCell(grid, idx, v) == IF idx \in Cells THEN [grid EXCEPT ![idx] = v] ELSE grid

\* apply_move with unchecked coordinates: the piece read outside the grid is
\* anything, a write outside the grid does not land in it
ApplyUnchecked(grid, c) ==
    LET p_idx == c[1] * 8 + c[2]
        t_idx == c[3] * 8 + c[4]
        s_idx == c[5] * 8 + c[6]
    IN  { WriteCell(WriteCell(WriteCell(grid, p_idx, EMPTY), t_idx, piece),
                    s_idx, OBSTACLE) :
          piece \in IF p_idx \in Cells THEN {grid[p_idx]} ELSE {EMPTY, OBSTACLE} }

\* main's lines; main has none before the first is recorded
Lines(f) == IF "lines" \in DOMAIN f THEN f.lines ELSE <<>>

\* the first line that did not parse, the board, the output and the input
\* position it met, and what main did with it
Malformed(fate) ==
    IF it.kind = "malformed" THEN it
    ELSE [kind |-> "malformed", fate |-> fate, board |-> board,
          written |-> Len(out)]

\* the lines written to stdout: a move, or the request to keep running
MoveLine(m) == [line |-> "move", move |-> m]
KEEP_RUNNING == [line |-> ">>>BOTZONE_REQUEST_KEEP_RUNNING<<<"]

\* turn_id, the first line of the input: 2 * turn_id - 1 lines follow
TurnId == (Len(Lines(frame)) + 1) \div 2

InitParse ==
    /\ bot \in {"bot021", "bot001"}
    /\ board = init_board
    /\ color = BLACK
    /\ pc = "record"
    /\ out = <<>>
    /\ prev = init_board
    /\ last = NoMove
    /\ ply = 0
    /\ NoSearch

\* one more line of the history: the request line -1 -1 -1 -1 -1 -1 of the
\* program that plays Black, or the move of the side to move
RecordLine ==
    /\ pc = "record"
    /\ Len(Lines(frame)) < MaxPly
    /\ \/ /\ Lines(frame) = <<>>
          /\ frame' = [lines |-> <<LineOf(NoMove)>>, i |-> 1]
          /\ UNCHANGED <<board, color, last>>
       \/ \E m \in SearchMoves(board, color) :
             /\ frame' = [lines |-> Append(Lines(frame), LineOf(m)), i |-> 1]
             /\ board' = apply_move(board, m)
             /\ last' = m
             /\ color' = -color
    /\ UNCHANGED <<bot, evalVars, pc, out, prev, ply, poolVars, root, iterations,
                   allow_expand, best_child_global, max_visits_global, timeup,
                   it, late>>

\* the 2 * turn - 1 lines reach main, the last of them perhaps cut (when
\* it is not the first, which gives the colour); main builds
\* its Board and takes its colour from the first line (bot021.cpp:506-526)
HandOver ==
    /\ pc = "record"
    /\ Len(Lines(frame)) % 2 = 1
    /\ \/ UNCHANGED frame
       \/ /\ Len(frame.lines) > 1
          /\ \E k \in Kept : \E junk \in BOOLEAN :
                frame' = [frame EXCEPT !.lines[Len(frame.lines)] =
                                           CutLine(@, k, junk)]
    /\ board' = init_board
    /\ prev' = board
    /\ color' = IF frame.lines[1].parts[1] = -1 THEN BLACK ELSE WHITE
    /\ pc' = "replay"
    /\ UNCHANGED <<bot, evalVars, out, last, ply, poolVars, root, iterations,
                   allow_expand, best_child_global, max_visits_global, timeup,
                   it, late>>

\* one pass of the replay loop, bot021.cpp:528-535 and bot001.cpp:492-504:
\* no test of how many integers the line gave
ReplayLine ==
    /\ pc = "replay"
    /\ frame.i <= Len(frame.lines)
    /\ \E l \in {frame.lines[frame.i]} :
          IF l.parts[1] = -1
          THEN /\ frame' = [frame EXCEPT !.i = @ + 1]
               /\ UNCHANGED <<board, pc, it>>
          ELSE \E c \in IF bot = "bot021" THEN Coords_021(l) ELSE Coords_001(l) :
                  \/ /\ \E g \in ApplyUnchecked(board, c) : board' = g
                     /\ frame' = [frame EXCEPT !.i = @ + 1]
                     /\ it' = IF WellFormed(l) THEN it ELSE Malformed("applied")
                     /\ UNCHANGED pc
                  \/ /\ \E k \in {1, 3, 5} : c[k] * 8 + c[k + 1] \notin Cells
                     /\ pc' = "crashed"
                     /\ it' = IF WellFormed(l) THEN it ELSE Malformed("crashed")
                     /\ UNCHANGED <<board, frame>>
    /\ UNCHANGED <<bot, evalVars, out, color, prev, last, ply, poolVars, root,
                   iterations, allow_expand, best_child_global,
                   max_visits_global, timeup, late>>

\* the search, called when the lines are replayed (bot021.cpp:543,
\* bot001.cpp:507-510) or the move of the opponent is applied
\* (bot001.cpp:560-562): it returns a move of the side, or the sentinel when
\* the root got no child
RunSearch ==
    /\ \/ /\ pc = "replay" /\ frame.i > Len(frame.lines)
          /\ turn_number' = TurnId
       \/ /\ pc = "search"
          /\ turn_number' = turn_number + 1
    /\ last' \in SearchMoves(board, color) \cup {NoMove}
    /\ pc' = "done"
    /\ UNCHANGED <<bot, scratch, out, board, color, prev, ply, poolVars,
                   searchVars>>

\* an output that asks to keep running whatever the move is
PrintMove_KeepAlways ==
    /\ pc = "done"
    /\ IF bot = "bot021"
       THEN /\ out' = Append(out, MoveLine(last))
            /\ pc' = "exit"
            /\ UNCHANGED board
       ELSE /\ out' = out \o <<MoveLine(last), KEEP_RUNNING>>
            /\ board' = IF last.x0 # -1 THEN apply_move(board, last) ELSE board
            /\ pc' = "wait"
    /\ UNCHANGED <<bot, evalVars, color, prev, last, ply, poolVars, searchVars>>

\* the output behind the search: bot021.cpp:545-554 writes the move or the
\* sentinel and ends; bot001.cpp:512-527 and 564-578 writes the move and the
\* request to keep running, or the sentinel, and then leaves
PrintMove ==
    /\ pc = "done"
    /\ IF bot = "bot021"
       THEN /\ out' = Append(out, MoveLine(last))
            /\ pc' = "exit"
            /\ UNCHANGED board
       ELSE IF last.x0 # -1
       THEN /\ out' = out \o <<MoveLine(last), KEEP_RUNNING>>
            /\ board' = apply_move(board, last)
            /\ pc' = "wait"
       ELSE /\ out' = Append(out, MoveLine(NoMove))
            /\ pc' = "exit"
            /\ UNCHANGED board
    /\ UNCHANGED <<bot, evalVars, color, prev, last, ply, poolVars, searchVars>>

\* bot001 reads a line in its loop, bot001.cpp:534-558: six integers are the
\* move of the opponent, any other line is passed over
ReadLine_001 ==
    /\ bot = "bot001" /\ pc = "wait"
    /\ ply < MaxRead
    /\ \E m \in SearchMoves(board, -color) :
          \/ /\ board' = apply_move(board, m)
             /\ last' = m
             /\ pc' = "search"
             /\ UNCHANGED it
          \/ /\ \E k \in Kept : \E junk \in BOOLEAN :
                    ~WellFormed(CutLine(LineOf(m), k, junk))
             /\ it' = Malformed("skipped")
             /\ UNCHANGED <<board, last, pc>>
    /\ ply' = ply + 1
    /\ UNCHANGED <<bot, evalVars, out, color, prev, poolVars, root, iterations,
                   allow_expand, best_child_global, max_visits_global, timeup,
                   late, frame>>

\* getline fails, bot001.cpp:536
EndOfInput_001 ==
    /\ bot = "bot001" /\ pc = "wait"
    /\ pc' = "exit"
    /\ UNCHANGED <<bot, evalVars, out, gameVars, poolVars, searchVars>>

NextParse ==
    \/ RecordLine \/ HandOver \/ ReplayLine \/ RunSearch \/ PrintMove
    \/ ReadLine_001 \/ EndOfInput_001

SpecParse == InitParse /\ [][NextParse]_vars

\* C16: once a line has given fewer than six integers the program has ended
\* without writing a move, the board is the board the line met, and the
\* program is not reading on.
C16_MalformedLineEndsTurn ==
    (bot \in {"bot021", "bot001"} /\ it.kind = "malformed") =>
        /\ pc \in {"crashed", "exit"}
        /\ board = it.board
        /\ Len(out) = it.written

\* the move lines among the first n lines of the output
RECURSIVE MoveLines(_, _)
MoveLines(lines, n) ==
    IF n = 0 THEN 0
    ELSE MoveLines(lines, n - 1) + (IF lines[n].line = "move" THEN 1 ELSE 0)

\* the calls of search that have returned: turn_number was turn_id at the
\* first call and went up by one before every later call
SearchesReturned == turn_number - TurnId + 1

\* C18: in bot001 the output holds one move line for every call of search
\* that has returned (the line of the last call is missing only while main
\* has not yet printed it); a move line is followed by the request to keep
\* running exactly when its move is not the sentinel, and the request stands
\* nowhere else; once the sentinel is written the program has ended.
C18_OneLinePerSearch ==
    (bot = "bot001" /\ pc \in {"done", "wait", "search", "exit"}
                    /\ turn_number > 0) =>
        /\ MoveLines(out, Len(out)) =
               SearchesReturned - (IF pc = "done" THEN 1 ELSE 0)
        /\ \A i \in 1 .. Len(out) :
              IF out[i].line = "move"
              THEN IF out[i].move.x0 # -1
                   THEN i < Len(out) /\ out[i + 1] = KEEP_RUNNING
                   ELSE i = Len(out) /\ pc = "exit"
              ELSE i > 1 /\ out[i - 1].line = "move"

\* bot001 answered its first request with a move and the next with the
\* sentinel
C18_Witness ==
    /\ bot = "bot001" /\ pc = "exit"
    /\ Len(out) = 3
    /\ out[1].line = "move" /\ out[1].move.x0 # -1
    /\ out[2] = KEEP_RUNNING
    /\ out[3] = MoveLine(NoMove)

\* visits and wins of node n of a pool; a node that is not yet made has none
Stats(pool, n) ==
    IF n \in DOMAIN pool /\ "visits" \in DOMAIN pool[n]
    THEN [visits |-> pool[n].visits, wins |-> pool[n].wins]
    ELSE [visits |-> 0, wins |-> 0]

\* C19: an iteration of bot021 or bot001 that backs up the score s adds one
\* visit to every node from the evaluated node up to the root, and s to
\* its wins when its player_just_moved is the searching side, 1 - s when it
\* is not; the chain ends in the root, and no other node changes its visits
\* or wins.
C19_BackpropChainOnly ==
    [][(bot \in {"bot021", "bot001"} /\ pc = "loop"
            /\ iterations' = iterations + 1) =>
          LET chain == ParentChain(node_pool', it'.node)
              s == it'.win_prob
          IN  /\ chain[Len(chain)] = root
              /\ \A n \in DOMAIN node_pool' :
                    "visits" \in DOMAIN node_pool'[n] =>
                       Stats(node_pool', n) =
                          IF n \in SeqToSet(chain)
                          THEN [visits |-> Stats(node_pool, n).visits + 1,
                                wins |-> Stats(node_pool, n).wins +
                                    (IF node_pool'[n].player_just_moved = color
                                     THEN s ELSE ONE - s)]
                          ELSE Stats(node_pool, n)
      ]_vars

\* bot021 has backed the score 0 of an enclosed side up a chain of three
\* nodes, which adds 0 to the wins of one side's nodes and 1 to the other's
C19_Witness ==
    /\ bot = "bot021" /\ pc = "loop"
    /\ it.kind \in {"expanded", "terminal"}
    /\ it.win_prob = 0
    /\ Len(ParentChain(node_pool, it.node)) >= 3

\* the position of node n of the tree under the root, whose position is
\* board
RECURSIVE NodeState(_, _)
NodeState(pool, n) ==
    IF n = root THEN board
    ELSE apply_move(NodeState(pool, pool[n].parent), pool[n].move)

\* bot021: the untried moves of node n, move_pool[moves_start_idx ..
\* moves_start_idx + moves_count - 1]
Untried_021(n) ==
    [k \in 1 .. node_pool[n].moves_count |->
        move_pool[node_pool[n].moves_start_idx + k]]

\* bot021: the moves get_legal_moves wrote for node n (bot021.cpp:391, 450)
Generated_021(n) ==
    get_legal_moves_021(NodeState(node_pool, n),
                        -node_pool[n].player_just_moved,
                        node_pool[n].moves_start_idx,
                        IF n = root THEN MAX_MOVES_FOR_ROOT_NODE
                        ELSE MAX_MOVES_PER_NODE)

\* bot012: the move of an expansion under way at node n, taken out of
\* untried_moves with its node not yet pushed to children (bot012.cpp:476-490)
InFlight_012(n) ==
    IF pc = "s485" /\ node_pool[frame.new_node].parent = n
    THEN <<node_pool[frame.new_node].move>> ELSE <<>>

\* untried moves and children of a node account for the moves generated
AccountsFor(untried, child_moves, generated) ==
    /\ Len(untried) + Len(child_moves) = Len(generated)
    /\ SeqToSet(untried) \cup SeqToSet(child_moves) = SeqToSet(generated)
    /\ NoDuplicates(child_moves)

\* C20: for every node of the tree of bot021 and bot012 the untried moves
\* and the moves of the children are together the moves generated for the
\* node, each once: an expansion takes one move out of the untried list and
\* attaches one child that carries it, and nothing else changes the list.
C20_UntriedPlusChildren ==
    /\ (bot = "bot021" /\ root # 0) =>
          \A n \in 1 .. node_pool_ptr :
             AccountsFor(Untried_021(n),
                         [k \in 1 .. Len(Children_021(node_pool, n)) |->
                             node_pool[Children_021(node_pool, n)[k]].move],
                         Generated_021(n))
    /\ (/\ bot = "bot012" /\ root # 0 /\ pc # "s449"
        /\ ~("aborted" \in DOMAIN frame /\ frame.aborted = "s449")) =>
          \A n \in Subtree(node_pool, root) :
             AccountsFor(node_pool[n].untried_moves \o InFlight_012(n),
                         [k \in 1 .. Len(node_pool[n].children) |->
                             node_pool[node_pool[n].children[k]].move],
                         get_legal_moves_001(NodeState(node_pool, n),
                                             -node_pool[n].player_just_moved))

(***************************************************************************)
(* The end of the search of bot021                                         *)
(***************************************************************************)
\* some child of the root has been visited once more
RootChildVisited ==
    \E c \in SeqToSet(Children_021(node_pool, root)) :
        node_pool'[c].visits = node_pool[c].visits + 1

\* C21: the search of bot021 leaves its loop only once the deadline has
\* passed; exhausted pools disable expansion and never end the search, and
\* every iteration that runs with expansion disabled visits a child of the
\* root once more, so the loop never runs on without changing the
\* statistics of the root's children.
C21_DoneOnDeadline ==
    [][(bot = "bot021" /\ pc = "loop") =>
              /\ pc' = "done" => timeup
              /\ (iterations' = iterations + 1 /\ ~allow_expand') =>
                     RootChildVisited]_vars

C21_Witness ==
    /\ bot = "bot021" /\ pc = "done" /\ timeup
    /\ ~allow_expand
    /\ iterations > CHECK_PERIOD
    /\ it.kind = "unexpanded"
    /\ node_pool[it.node].moves_count > 0

(***************************************************************************)
(* SpecCap: the capped generator of bot021 (bot021.cpp:108-162) called on  *)
(* every board that is Obstacles outside the cells of CapRegion, with the  *)
(* move pool filled up to move_pool_ptr: with the cap of the root          *)
(* (bot021.cpp:387), with the default cap of the interior nodes            *)
(* (bot021.cpp:450), and with any cap up to MaxCap.  out holds the         *)
(* arguments and the results of the call.                                  *)
(***************************************************************************)
MaxCap == 1
CapRegion == {0, 1, 2, 9, 10}

InitCap ==
    /\ bot = "cap"
    /\ \E f \in [CapRegion -> {EMPTY, BLACK, WHITE, OBSTACLE}] :
          board = GenBoard(CapRegion, f)
    /\ color \in Sides
    /\ pc = "input"
    /\ out = <<>>
    /\ prev = EmptyGrid
    /\ last = NoMove
    /\ ply = 0
    /\ move_pool_ptr \in {0, MAX_MOVES_POOL - MAX_MOVES_PER_NODE}
    /\ move_pool = [i \in 1 .. move_pool_ptr |-> NoMove]
    /\ node_pool = <<>> /\ node_pool_ptr = 0
    /\ root = 0 /\ iterations = 0 /\ allow_expand = TRUE
    /\ best_child_global = 0 /\ max_visits_global = -1
    /\ timeup = FALSE /\ it = NoIteration /\ late = 0 /\ frame = NoFrame
    /\ turn_number = 0 /\ scratch = ZeroScratch

\* get_legal_moves(color, out_start_idx, out_count, cap)
Call_021(cap, site) ==
    /\ bot = "cap" /\ pc = "input"
    /\ \E gen \in {get_legal_moves_021(board, color, move_pool_ptr, cap)} :
          /\ out' = [cap |-> cap, out_start_idx |-> move_pool_ptr,
                     out_count |-> Len(gen), moves |-> gen]
          /\ move_pool' = WriteSeq(move_pool, move_pool_ptr, gen)
          /\ move_pool_ptr' = move_pool_ptr + Len(gen)
    /\ pc' = site
    /\ UNCHANGED <<bot, evalVars, gameVars, node_pool, node_pool_ptr,
                   searchVars>>

\* the call of search for the root, bot021.cpp:387
Gen_021_Root == Call_021(MAX_MOVES_FOR_ROOT_NODE, "root")

\* the call of search for a new node, bot021.cpp:450: the default argument
Gen_021_Node == Call_021(MAX_MOVES_PER_NODE, "node")

Gen_021_Cap == \E cap \in 0 .. MaxCap : Call_021(cap, "cap")

\* calc_mobility(board.grid, pieces, count) for the pieces of the side the
\* moves were generated for, bot021.cpp:285-303; it is the call and its
\* result
Mobility_021 ==
    /\ bot = "cap" /\ pc # "input"
    /\ it = NoIteration
    /\ it' = [kind |-> "mobility",
              mob |-> calc_mobility_021(board, PieceCells(board, color))]
    /\ UNCHANGED <<bot, pc, out, evalVars, gameVars, poolVars, root,
                   iterations, allow_expand, best_child_global,
                   max_visits_global, timeup, late, frame>>

NextCap == Gen_021_Root \/ Gen_021_Node \/ Gen_021_Cap \/ Mobility_021

SpecCap == InitCap /\ [][NextCap]_vars

Min(a, b) == IF a < b THEN a ELSE b

\* the place of a move in the enumeration of the loops: the cell of the
\* piece, the direction and the length of the slide, the direction and the
\* length of the shot
DirIndex(dr, dc) ==
    CHOOSE d \in 1 .. 8 : DIRECTIONS_021[d] = <<Sgn(dr), Sgn(dc)>>

Reach(a, b) == IF Abs(a) > Abs(b) THEN Abs(a) ELSE Abs(b)

EnumOrder(m) ==
    <<m.x0 * 8 + m.y0,
      DirIndex(m.x1 - m.x0, m.y1 - m.y0), Reach(m.x1 - m.x0, m.y1 - m.y0),
      DirIndex(m.x2 - m.x1, m.y2 - m.y1), Reach(m.x2 - m.x1, m.y2 - m.y1)>>

RECURSIVE LexLess(_, _)
LexLess(a, b) ==
    /\ Len(a) > 0
    /\ \/ a[1] < b[1]
       \/ a[1] = b[1] /\ LexLess(Tail(a), Tail(b))

\* C22: with room in the move pool for them, get_legal_moves(color, cap)
\* returns exactly min(cap, N) of the N legal moves, every one once, and
\* they are the first min(cap, N) moves in the order of the uncapped
\* enumeration: they come in that order and every legal move left out comes
\* after them.  The root is generated with the cap MAX_MOVES_FOR_ROOT_NODE
\* and every other node with MAX_MOVES_PER_NODE.
C22_CapKeepsFirstMoves ==
    (bot = "cap" /\ pc # "input") =>
        LET legal == LegalMoves(board, color)
            n == Min(out.cap, Cardinality(legal))
        IN  /\ pc = "root" => out.cap = MAX_MOVES_FOR_ROOT_NODE
            /\ pc = "node" => out.cap = MAX_MOVES_PER_NODE
            /\ out.out_start_idx + n <= MAX_MOVES_POOL =>
                  /\ out.out_count = n
                  /\ Len(out.moves) = n
                  /\ move_pool_ptr = out.out_start_idx + n
                  /\ SubSeq(move_pool, out.out_start_idx + 1, move_pool_ptr)
                        = out.moves
                  /\ SeqToSet(out.moves) \subseteq legal
                  /\ NoDuplicates(out.moves)
                  /\ \A i \in 1 .. n - 1 :
                        LexLess(EnumOrder(out.moves[i]),
                                EnumOrder(out.moves[i + 1]))
                  /\ \A m \in legal \ SeqToSet(out.moves) :
                        n > 0 => LexLess(EnumOrder(out.moves[n]), EnumOrder(m))

\* a call for an interior node that the cap cut short
C22_Witness ==
    /\ bot = "cap" /\ pc = "node"
    /\ out.out_count = MAX_MOVES_PER_NODE
    /\ Cardinality(LegalMoves(board, color)) > MAX_MOVES_PER_NODE
    /\ out.out_start_idx + out.out_count <= MAX_MOVES_POOL
    /\ out.out_start_idx > 0

\* C23: bot021 skips the evaluator and scores a node 0 or 1 only when the
\* side to move on the node's board has no legal move: a move list that is
\* empty because the pool was full or the cap was reached never makes a
\* node terminal.
C23_TerminalOnlyWithoutMoves ==
    (bot = "bot021" /\ it.kind # "none" /\ ~it.evaluated) =>
        LegalMoves(it.state, it.cp) = {}

(***************************************************************************)
(* Every iteration of bot021 comes to its end                              *)
(***************************************************************************)
\* the score uct_select_child computes for a child (bot021.cpp:214) is a
\* finite number that is not negative, hence above the -1e9f the scan
\* starts from, when wins and visits of the child are not negative:
\* visits + 1e-6f > 0 and log_v = log(visits + 1) >= 0 of the parent
ScoreAboveFloor(pool, n, c) ==
    pool[c].wins >= 0 /\ pool[c].visits >= 0 /\ pool[n].visits >= 0

\* the number of moves applied on the way from the root to node n
Depth(pool, n) == Len(ParentChain(pool, n)) - 1

\* C24: every iteration of the search of bot021 completes.  A node lies at
\* most as many levels below the root as the root board has Empty cells, so
\* the selection loop ends in a node that is not fully expanded or has no
\* child after at most that many steps; uct_select_child returns a child
\* of every node that has one; every parent link points to a node
\* allocated earlier, and the chain of parents backpropagation follows ends
\* at the root.
C24_IterationCompletes ==
    (bot = "bot021" /\ pc \in {"loop", "done"}) =>
        /\ \A n \in 1 .. node_pool_ptr :
              /\ IF n = root THEN node_pool[n].parent = 0
                 ELSE node_pool[n].parent \in 1 .. (n - 1)
              /\ ParentChain(node_pool, n)[Depth(node_pool, n) + 1] = root
              /\ Depth(node_pool, n) <= Count(board, EMPTY)
              /\ node_pool[n].first_child # 0 =>
                    /\ uct_select_child_021(node_pool, n) # {}
                    /\ \A c \in uct_select_child_021(node_pool, n) :
                          /\ node_pool[c].parent = n
                          /\ ScoreAboveFloor(node_pool, n, c)
        /\ \A sel \in Select_021(node_pool, root, board, color) :
              ~(/\ is_fully_expanded(node_pool[sel.node])
                /\ node_pool[sel.node].first_child # 0)
        /\ it.kind # "none" => Depth(node_pool, it.node) <= Count(board, EMPTY)

\* an iteration has gone down as many levels as the root board has Empty
\* cells, through a node with two children, and met a terminal node there
C24_Witness ==
    /\ bot = "bot021" /\ pc = "loop"
    /\ it.kind = "terminal"
    /\ Count(board, EMPTY) >= 2
    /\ Depth(node_pool, it.node) = Count(board, EMPTY)
    /\ \E n \in SeqToSet(ParentChain(node_pool, it.node)) :
          Len(Children_021(node_pool, n)) >= 2

(***************************************************************************)
(* advance_root of bot012                                                  *)
(***************************************************************************)
\* main has just called advance_root with the move last': after its own
\* move (bot012.cpp:633, 684) or after the opponent's (bot012.cpp:671)
Advanced ==
    \/ pc = "done" /\ pc' = "wait"
    \/ pc = "wait" /\ pc' = "main"

\* the children of the root that carry move m
Carrying(pool, rt, m) ==
    { c \in SeqToSet(pool[rt].children) : pool[c].move = m }

\* C25: advance_root(move) of bot012 makes the child of the root that
\* carries the move played the new root, with a null parent and with its
\* visits, wins, children and untried moves as they were; when no child
\* carries the move the root becomes null, and the search that follows
\* allocates a fresh root.  No node of the old tree is deallocated or
\* changed in either case.
C25_AdvanceRoot ==
    [][bot = "bot012" =>
         /\ (Advanced /\ root # 0 /\ Carrying(node_pool, root, last') # {}) =>
               /\ root' \in Carrying(node_pool, root, last')
               /\ node_pool'[root'] = [node_pool[root'] EXCEPT !.parent = 0]
               /\ ~node_pool'[root'].freed
               /\ Len(node_pool') = Len(node_pool)
               /\ \A a \in 1 .. Len(node_pool) :
                     a # root' => node_pool'[a] = node_pool[a]
         /\ (Advanced /\ (root = 0 \/ Carrying(node_pool, root, last') = {})) =>
               /\ root' = 0
               /\ node_pool' = node_pool
         /\ (pc = "main" /\ pc' # "main" /\ root = 0) =>
               /\ root' = Len(node_pool) + 1
               /\ node_pool' = Append(node_pool, node_pool'[root'])
               /\ node_pool'[root'].parent = 0
               /\ node_pool'[root'].visits = 0
               /\ node_pool'[root'].wins = 0
               /\ node_pool'[root'].children = <<>>
      ]_vars

\* the reply of the opponent was in the tree: the root of the search that
\* is about to start is a node of the tree of the turn before, visited and
\* with untried moves or children, and the root of that tree is still
\* allocated with its children
C25_Witness ==
    /\ bot = "bot012" /\ pc = "main" /\ ply = 2
    /\ root # 0
    /\ node_pool[root].parent = 0
    /\ node_pool[root].visits >= 1
    /\ node_pool[root].untried_moves # <<>> \/ node_pool[root].children # <<>>
    /\ ~node_pool[1].freed /\ node_pool[1].children # <<>>
    /\ \E a \in 1 .. Len(node_pool) :
          ~node_pool[a].freed /\ node_pool[a].parent = 1

(***************************************************************************)
(* advance_root of bot001: what is deleted and what is kept                *)
(***************************************************************************)
\* the objects reached from n through children lists; a deleted object is
\* reached and not looked into
RECURSIVE Reached(_, _)
Reached(pool, n) ==
    IF n = 0 THEN {}
    ELSE IF pool[n].freed THEN {n}
    ELSE {n} \cup UNION { Reached(pool, c) : c \in SeqToSet(pool[n].children) }

\* the delete expressions run by delete n, in their order: ~MCTSNode
\* deletes the children one after the other (bot001.cpp:148-152), then the
\* object itself goes
RECURSIVE DeleteOrder(_, _, _)
DeleteOrder(pool, cs, i) ==
    IF i > Len(cs) THEN <<>>
    ELSE (IF pool[cs[i]].freed THEN <<>>
          ELSE DeleteOrder(pool, pool[cs[i]].children, 1))
         \o <<cs[i]>> \o DeleteOrder(pool, cs, i + 1)

\* root->children after the erase of bot001.cpp:434-437
Erased(pool, rt, new_root) ==
    SelectSeq(pool[rt].children, LAMBDA c : c # new_root)

\* C26: in bot001, over any sequence of searches and advance_root calls,
\* every object reachable from the root is allocated and no other object
\* is; a call of advance_root deletes every object of the old tree outside
\* the subtree of the new root exactly once, none of them deleted before,
\* and leaves the subtree of the new root allocated and unchanged but for
\* the parent link of the new root.
C26_AdvanceRootDeletesOnce ==
    /\ [](bot = "bot001" =>
            \A a \in 1 .. Len(node_pool) :
                node_pool[a].freed <=> a \notin Reached(node_pool, root))
    /\ [][(bot = "bot001" /\ Advanced /\ root # 0) =>
            LET old == Reached(node_pool, root)
                keep == Reached(node_pool, root')
                gone == DeleteOrder(node_pool,
                                    Erased(node_pool, root, root'), 1)
                           \o <<root>>
            IN  /\ \A a \in old : ~node_pool[a].freed
                /\ keep \subseteq old
                /\ NoDuplicates(gone)
                /\ SeqToSet(gone) = old \ keep
                /\ \A a \in old \ keep : node_pool'[a].freed
                /\ \A a \in keep :
                      node_pool'[a] = IF a = root'
                                      THEN [node_pool[a] EXCEPT !.parent = 0]
                                      ELSE node_pool[a]
                /\ \A a \in (1 .. Len(node_pool)) \ old :
                      node_pool'[a] = node_pool[a]
                /\ Len(node_pool') = Len(node_pool)
          ]_vars

\* after the opponent's reply the root is a grandchild of the first root,
\* kept with a child or an untried move, and the first root, the child
\* played and another node have been deleted
C26_Witness ==
    /\ bot = "bot001" /\ pc = "main" /\ ply = 2
    /\ root > 2
    /\ node_pool[root].visits >= 1
    /\ node_pool[root].untried_moves # <<>> \/ node_pool[root].children # <<>>
    /\ Cardinality({a \in 1 .. Len(node_pool) : node_pool[a].freed}) >= 3

(***************************************************************************)
(* The children of bot012 between searches                                 *)
(***************************************************************************)
\* C27: in bot012, when no search is running, every node in a children
\* list has been visited: the iteration that attached it has evaluated it
\* and backpropagated the value, whenever the deadline passed.
C27_ChildrenVisited ==
    (bot = "bot012" /\ pc \in {"done", "wait", "main", "exit"}) =>
        \A a \in 1 .. Len(node_pool) :
            ~node_pool[a].freed =>
                \A c \in SeqToSet(node_pool[a].children) :
                    node_pool[c].visits >= 1

\* C28: in bot012 every call of uct_select_child made by the selection loop
\* (on a node without untried moves and with a child) returns a child of
\* that node, never the null pointer, also in a tree kept from an earlier
\* turn.
C28_SelectionReturnsChild ==
    [][(bot = "bot012" /\ pc = "s461" /\ ~timeup
          /\ (pc' # pc \/ frame' # frame)) =>
           /\ pc' \in {"s461", "s469", "s496"}
           /\ frame'.node \in SeqToSet(node_pool[frame.node].children)
      ]_vars

(***************************************************************************)
(* bot002: the bitboard engine.  A uint64_t bitboard is the set of the     *)
(* indices of its one bits; bit x * 8 + y is cell (x, y).  The Board is    *)
(* the record of queens[BLACK], queens[WHITE] and arrows, the sides are 0  *)
(* and 1 (bot002.cpp:18-19), a Move is the record of the three bit indices *)
(* (score is read by order_moves only and left out).                       *)
(***************************************************************************)
BLACK_002 == 0
WHITE_002 == 1

NOT_A_FILE == {i \in Cells : i % 8 # 0}
NOT_H_FILE == {i \in Cells : i % 8 # 7}

\* SHIFTS[d], bot002.cpp:74-89: the distance of the shift (to the left when
\* positive) and the mask applied to the result
SHIFTS ==
    << [by |-> 7, mask |-> NOT_H_FILE], [by |-> 8, mask |-> Cells],
       [by |-> 9, mask |-> NOT_A_FILE], [by |-> -1, mask |-> NOT_H_FILE],
       [by |-> 1, mask |-> NOT_A_FILE], [by |-> -9, mask |-> NOT_H_FILE],
       [by |-> -8, mask |-> Cells], [by |-> -7, mask |-> NOT_A_FILE] >>

\* a shift without the file masks
shift_Unmasked(b, d) == {i + SHIFTS[d].by : i \in b} \cap Cells

\* bits shifted out of the 64-bit word are lost
shift(b, d) == ({i + SHIFTS[d].by : i \in b} \cap Cells) \cap SHIFTS[d].mask

\* slide_direction, bot002.cpp:141-149
RECURSIVE SlideLoop_002(_, _, _, _)
SlideLoop_002(next, occupied, d, moves) ==
    IF next # {} /\ next \cap occupied = {}
    THEN SlideLoop_002(shift(next, d), occupied, d, moves \cup next)
    ELSE moves

slide_direction(pos, occupied, d) ==
    SlideLoop_002(shift(pos, d), occupied, d, {})

Move_002(s, d, a) == [src |-> s, dest |-> d, arrow |-> a]
NoMove_002 == Move_002(-1, -1, -1)

coord_to_idx(x, y) == x * 8 + y

\* Board::Board and init_board, bot002.cpp:92-115
init_board_002 ==
    [queens |-> (BLACK_002 :> {coord_to_idx(0, 2), coord_to_idx(2, 0),
                               coord_to_idx(5, 0), coord_to_idx(7, 2)}
                 @@ WHITE_002 :> {coord_to_idx(0, 5), coord_to_idx(2, 7),
                                  coord_to_idx(5, 7), coord_to_idx(7, 5)}),
     arrows |-> {}]

\* b ^ bit
Xor(b, bit) == (b \ bit) \cup (bit \ b)

\* apply_move, bot002.cpp:204-212
apply_move_002(b, m, c) ==
    [queens |-> [b.queens EXCEPT ![c] = Xor(@, {m.src}) \cup {m.dest}],
     arrows |-> b.arrows \cup {m.arrow}]

\* generate_moves, bot002.cpp:152-201.  The vector is held as the set of
\* its elements: its order is read through a random index only
\* (bot002.cpp:559-560), and order_moves (bot002.cpp:430-437) permutes it.
generate_moves(b, c) ==
    LET occupied == b.queens[0] \cup b.queens[1] \cup b.arrows
    IN  UNION { LET occ_without_src == Xor(occupied, {src})
                    destinations ==
                        UNION { slide_direction({src}, occ_without_src, d) :
                                d \in 1 .. 8 }
                IN  UNION { LET occ_at_dest == occ_without_src \cup {dest}
                                arrow_positions ==
                                    UNION { slide_direction({dest}, occ_at_dest, d) :
                                            d \in 1 .. 8 }
                            IN  { Move_002(src, dest, a) : a \in arrow_positions } :
                            dest \in destinations } :
                src \in b.queens[c] }

\* the side of the grid programs that side c of bot002 is, and the
\* bitboards of a grid
GridSide(c) == IF c = BLACK_002 THEN BLACK ELSE WHITE

Bitboards(grid) ==
    [queens |-> (BLACK_002 :> {i \in Cells : grid[i] = BLACK}
                 @@ WHITE_002 :> {i \in Cells : grid[i] = WHITE}),
     arrows |-> {i \in Cells : grid[i] = OBSTACLE}]

\* a move as the line of six coordinates and back, bot002.cpp:700-703,
\* 721-727
IdxMove(l) ==
    Move_002(coord_to_idx(l.x0, l.y0), coord_to_idx(l.x1, l.y1),
             coord_to_idx(l.x2, l.y2))

CoordMove(m) ==
    Move(m.src \div 8, m.src % 8, m.dest \div 8, m.dest % 8,
         m.arrow \div 8, m.arrow % 8)

\* the rules of the game: line l is a move of side on the grid
IsLegal(grid, side, l) ==
    /\ l.x0 \in 0 .. 7 /\ l.y0 \in 0 .. 7
    /\ grid[l.x0 * 8 + l.y0] = side
    /\ Slides(grid, l.x0 * 8 + l.y0, l.x1 * 8 + l.y1, -1)
    /\ Slides(grid, l.x1 * 8 + l.y1, l.x2 * 8 + l.y2, l.x0 * 8 + l.y0)

(***************************************************************************)
(* main of bot002, bot002.cpp:641-811, up to the opponent's reply to the   *)
(* first answer.  board is the Board of main, color is my_color, out the   *)
(* lines of the history the judge sends, prev the position of the game on  *)
(* the judge's grid, frame the variables of the replay loop.  The first    *)
(* search starts from an empty tree (advance_root returns at once while    *)
(* root is null, bot002.cpp:609), so its answer is a move generate_moves   *)
(* gives for the Board of main, or the sentinel.                           *)
(***************************************************************************)
MinOf(S) == CHOOSE x \in S : \A y \in S : x <= y

\* the first k moves of a set in the order of generate_moves: lowest source
\* bit, then lowest destination bit, then lowest arrow bit
RECURSIVE FirstMoves_002(_, _)
FirstMoves_002(S, k) ==
    IF k = 0 \/ S = {} THEN {}
    ELSE LET s  == MinOf({m.src : m \in S})
             S1 == {m \in S : m.src = s}
             d  == MinOf({m.dest : m \in S1})
             S2 == {m \in S1 : m.dest = d}
             a  == MinOf({m.arrow : m \in S2})
         IN  {Move_002(s, d, a)}
                 \cup FirstMoves_002(S \ {Move_002(s, d, a)}, k - 1)

\* the side to move in the game after the lines ls
RealMoves(ls) == Cardinality({i \in 1 .. Len(ls) : ls[i].x0 # -1})
ToMove(ls) == IF RealMoves(ls) % 2 = 0 THEN BLACK ELSE WHITE

InitMain002 ==
    /\ bot = "main002"
    /\ board = init_board_002
    /\ color \in {BLACK_002, WHITE_002}
    /\ pc = "record"
    /\ out = IF color = BLACK_002 THEN <<NoMove>> ELSE <<>>
    /\ prev = init_board
    /\ last = NoMove
    /\ ply = 0
    /\ NoSearch

\* one more line of the history: a move of the side to move
Record_002 ==
    /\ bot = "main002" /\ pc = "record"
    /\ Len(out) < MaxPly
    /\ \E m \in SearchMoves(prev, ToMove(out)) :
          /\ last' = m
          /\ prev' = apply_move(prev, m)
          /\ out' = Append(out, m)
    /\ UNCHANGED <<bot, board, color, pc, ply, poolVars, searchVars, evalVars>>

\* bot002.cpp:654-684: turn_id is read, the lines are read, my_color and
\* current_color are set from the first line
ReadHistory_002 ==
    /\ bot = "main002" /\ pc = "record"
    /\ Len(out) % 2 = 1
    /\ color = (IF out[1].x0 = -1 THEN BLACK_002 ELSE WHITE_002)
    /\ frame' = [i |-> 1,
                 current_color |->
                     IF out[1].x0 = -1 THEN BLACK_002 ELSE WHITE_002]
    /\ pc' = "replay"
    /\ UNCHANGED <<bot, out, gameVars, poolVars, root, iterations,
                   allow_expand, best_child_global, max_visits_global,
                   timeup, it, late, evalVars>>

\* one pass of the replay loop, bot002.cpp:686-711
ReplayLine_002 ==
    /\ bot = "main002" /\ pc = "replay"
    /\ LET l == out[frame.i]
       IN  /\ board' = IF l.x0 = -1 THEN board
                       ELSE apply_move_002(board, IdxMove(l),
                                           frame.current_color)
           /\ frame' = [i |-> frame.i + 1,
                        current_color |-> 1 - frame.current_color]
    /\ pc' = IF frame.i = Len(out) THEN "search" ELSE "replay"
    /\ UNCHANGED <<bot, out, color, prev, last, ply, poolVars, root,
                   iterations, allow_expand, best_child_global,
                   max_visits_global, timeup, it, late, evalVars>>

\* bot002.cpp:714-735: the search, the answer, the move applied for
\* my_color.  The judge ends the game on an answer that is no move of the
\* game.
Answer_002 ==
    /\ bot = "main002" /\ pc = "search"
    /\ \E m \in FirstMoves_002(generate_moves(board, color), MaxChoice)
                  \cup {NoMove_002} :
          /\ last' = CoordMove(m)
          /\ IF m = NoMove_002
             THEN /\ pc' = "exit"
                  /\ UNCHANGED <<board, prev>>
             ELSE /\ board' = apply_move_002(board, m, color)
                  /\ IF IsLegal(prev, GridSide(color), CoordMove(m))
                     THEN /\ prev' = apply_move(prev, CoordMove(m))
                          /\ pc' = "wait"
                     ELSE /\ pc' = "illegal"
                          /\ UNCHANGED prev
    /\ ply' = ply + 1
    /\ UNCHANGED <<bot, out, color, poolVars, searchVars, evalVars>>

\* bot002.cpp:740-781: the opponent's line is read and applied for
\* 1 - my_color
Reply_002 ==
    /\ bot = "main002" /\ pc = "wait"
    /\ \E l \in SearchMoves(prev, GridSide(1 - color)) :
          /\ last' = l
          /\ prev' = apply_move(prev, l)
          /\ board' = apply_move_002(board, IdxMove(l), 1 - color)
    /\ pc' = "turn"
    /\ UNCHANGED <<bot, out, color, ply, poolVars, searchVars, evalVars>>

NextMain002 ==
    \/ Record_002
    \/ ReadHistory_002
    \/ ReplayLine_002
    \/ Answer_002
    \/ Reply_002

SpecMain002 == InitMain002 /\ [][NextMain002]_vars

\* C29: the Board main holds after the replay and after each move of the
\* keep-running loop is the position of the game: every queen and arrow of
\* the game on the bitboard of its own side, and nothing else
C29_ReplayAppliesMoverColour ==
    (bot = "main002" /\ pc \in {"search", "wait", "turn"}) =>
        /\ Cardinality(board.queens[BLACK_002]) = 4
        /\ Cardinality(board.queens[WHITE_002]) = 4
        /\ board.queens[BLACK_002] \cap board.queens[WHITE_002] = {}
        /\ board.queens[BLACK_002] \cap board.arrows = {}
        /\ board.queens[WHITE_002] \cap board.arrows = {}
        /\ board = Bitboards(prev)

(***************************************************************************)
(* MCTS::search of bot002, bot002.cpp:530-606.  board is root_state, color *)
(* is root_player (0 or 1); the tree is in node_pool, with untried_moves   *)
(* the set of the moves not tried yet.                                     *)
(***************************************************************************)
MaxIter002 == 4

\* NodePool, bot002.cpp:441-467, in units of sizeof(MCTSNode): size is
\* memory.size(), capacity what the vector has reserved, offset the next
\* free byte, data the storage block the vector holds (a new one after each
\* reallocation).  The reserve is scaled down as the other capacities are
\* (10000000 bytes there, between 2^16 and 2^17 nodes of 96 bytes).
POOL_RESERVE == 5

NodePool_002 ==
    [size |-> 0, capacity |-> POOL_RESERVE, data |-> 0, offset |-> 0]

\* NodePool::allocate, bot002.cpp:450-458: resize beyond the capacity moves
\* the vector to new storage and frees the old one; the node is placed in
\* the storage the vector has after the resize
allocate_002(pl) ==
    IF pl.offset + 1 > pl.size
    THEN LET new_size == IF pl.size * 2 > pl.offset + 1
                         THEN pl.size * 2 ELSE pl.offset + 1
         IN  [size |-> new_size,
              capacity |-> IF new_size > pl.capacity THEN new_size
                           ELSE pl.capacity,
              data |-> IF new_size > pl.capacity THEN pl.data + 1
                       ELSE pl.data,
              offset |-> pl.offset + 1]
    ELSE [pl EXCEPT !.offset = @ + 1]

\* MCTSNode::MCTSNode, bot002.cpp:480-483; block is the storage block the
\* address of the node lies in
MCTSNode_002(p, m, pjm, b) ==
    [parent |-> p, move |-> m, children |-> <<>>, wins |-> 0, visits |-> 0,
     untried_moves |-> {}, player_just_moved |-> pjm, block |-> b]

\* the pointer n designates storage the pool has freed
Dangling(pool, pl, n) == n # 0 /\ pool[n].block # pl.data

\* MCTSNode::uct_select_child, bot002.cpp:485-501: the loop of bot001 (a
\* score that is NaN is never the best one, nullptr when no child was taken)
uct_select_child_002(pool, n) == uct_select_child_001(pool, n)

\* the selection loop, bot002.cpp:551-555; node 0 is the null pointer that
\* the loop dereferences next
RECURSIVE Select_002(_, _, _, _)
Select_002(pool, n, state, cp) ==
    IF n = 0 THEN { [node |-> 0, state |-> state, cp |-> cp] }
    ELSE IF pool[n].untried_moves = {} /\ pool[n].children # <<>>
    THEN UNION { Select_002(pool, c,
                            IF c = 0 THEN state
                            ELSE apply_move_002(state, pool[c].move,
                                                1 - pool[c].player_just_moved),
                            1 - cp) :
                 c \in uct_select_child_002(pool, n) }
    ELSE { [node |-> n, state |-> state, cp |-> cp] }

\* the expansion with move m of the untried moves, bot002.cpp:558-572; b is
\* the storage block pool_new_node placed the node in
Expand_002(pool, sel, m, b) ==
    LET n == sel.node
        state == apply_move_002(sel.state, m, sel.cp)
        cp == 1 - sel.cp
        a == Len(pool) + 1
        nn == [MCTSNode_002(n, m, 1 - cp, b) EXCEPT
                  !.untried_moves = generate_moves(state, cp)]
    IN  [pool |-> Append([pool EXCEPT
                             ![n].untried_moves = @ \ {m},
                             ![n].children = Append(@, a)], nn),
         node |-> a, state |-> state, cp |-> cp, kind |-> "expanded"]

\* MCTS::advance_root, bot002.cpp:608-633: the old tree stays in the pool,
\* or the pool is reset when no child has the move
advance_root_002(pool, pl, rt, m) ==
    IF rt = 0 THEN [pool |-> pool, nodes |-> pl, root |-> 0]
    ELSE LET new_root == FindChild(pool, pool[rt].children, m, 1)
         IN  IF new_root # 0
             THEN [pool |-> [pool EXCEPT ![new_root].parent = 0],
                   nodes |-> pl, root |-> new_root]
             ELSE [pool |-> pool, nodes |-> [pl EXCEPT !.offset = 0],
                   root |-> 0]

\* search() up to its loop, bot002.cpp:531-539.  node_pool lists the nodes
\* constructed so far; frame is the NodePool.
Search_002 ==
    /\ bot = "bot002" /\ pc = "main"
    /\ IF root = 0
       THEN \E al \in {allocate_002(frame)} :
            /\ root' = Len(node_pool) + 1
            /\ frame' = al
            /\ node_pool' = Append(node_pool,
                  [MCTSNode_002(0, Move_002(0, 0, 0), 1 - color, al.data)
                      EXCEPT !.untried_moves = generate_moves(board, color)])
       ELSE UNCHANGED <<root, node_pool, frame>>
    /\ timeup' = FALSE
    /\ iterations' = 0
    /\ pc' = "loop"
    /\ UNCHANGED <<bot, evalVars, out, gameVars, node_pool_ptr, move_pool,
                   move_pool_ptr, allow_expand, best_child_global,
                   max_visits_global, it, late>>

\* one pass of the loop, bot002.cpp:541-589; a null node stops the program.
\* it.selected is the working board when the selection loop has ended.
\* When the allocation has moved the pool, node points into freed storage:
\* the writes through it (bot002.cpp:569-570) fault, or find the storage as
\* it was left.
Iterate_002 ==
    /\ bot = "bot002" /\ pc = "loop"
    /\ ~timeup
    /\ iterations < MaxIter002
    /\ \E sel \in Select_002(node_pool, root, board, color) :
          IF sel.node = 0
          THEN /\ pc' = "crashed"
               /\ UNCHANGED <<node_pool, it, iterations, frame>>
          ELSE \E v \in EvalValues :
               \E al \in {IF node_pool[sel.node].untried_moves # {}
                          THEN allocate_002(frame) ELSE frame} :
               \E st \in IF node_pool[sel.node].untried_moves # {}
                         THEN { Expand_002(node_pool, sel, m, al.data) :
                                m \in node_pool[sel.node].untried_moves }
                         ELSE { [pool |-> node_pool, node |-> sel.node,
                                 state |-> sel.state, cp |-> sel.cp,
                                 kind |-> "leaf"] } :
                  /\ frame' = al
                  /\ \/ /\ node_pool' = Backprop_001(st.pool, st.node, v, color)
                        /\ it' = [kind |-> st.kind, node |-> st.node,
                                  selected |-> sel.state, reached |-> sel.node,
                                  state |-> st.state, cp |-> st.cp,
                                  win_prob |-> v, evaluated |-> TRUE]
                        /\ iterations' = iterations + 1
                        /\ pc' = pc
                     \/ /\ al.data # frame.data
                        /\ pc' = "crashed"
                        /\ UNCHANGED <<node_pool, it, iterations>>
    /\ UNCHANGED <<bot, evalVars, out, gameVars, node_pool_ptr, move_pool,
                   move_pool_ptr, root, allow_expand, best_child_global,
                   max_visits_global, timeup, late>>

\* the loop breaks on the clock and search returns, bot002.cpp:542-544,
\* 591-605
Return_002 ==
    /\ bot = "bot002" /\ pc = "loop"
    /\ timeup
    /\ out' = IF node_pool[root].children = <<>> THEN NoMove_002
              ELSE node_pool[Scan_001(node_pool, node_pool[root].children,
                                      1, 0, -1)].move
    /\ pc' = "done"
    /\ UNCHANGED <<bot, evalVars, gameVars, poolVars, searchVars>>

\* main after search, bot002.cpp:721-735, 788-803: the move is printed,
\* applied and the tree advanced, or the sentinel is printed and the
\* program ends
MainOutput_002 ==
    /\ bot = "bot002" /\ pc = "done"
    /\ IF out.src # -1
       THEN \E ar \in {advance_root_002(node_pool, frame, root, out)} :
               /\ board' = apply_move_002(board, out, color)
               /\ prev' = board
               /\ ply' = ply + 1
               /\ node_pool' = ar.pool
               /\ frame' = ar.nodes
               /\ root' = ar.root
               /\ pc' = "wait"
       ELSE /\ pc' = "exit"
            /\ UNCHANGED <<board, prev, ply, node_pool, frame, root>>
    /\ UNCHANGED <<bot, evalVars, out, color, last, node_pool_ptr, move_pool,
                   move_pool_ptr, iterations, allow_expand, best_child_global,
                   max_visits_global, timeup, it, late>>

\* main reads the opponent's move, applies it and advances the tree,
\* bot002.cpp:740-784
MainInput_002 ==
    /\ bot = "bot002" /\ pc = "wait"
    /\ ply < MaxPly
    /\ \E m \in FirstMoves_002(generate_moves(board, 1 - color), MaxChoice) :
       \E ar \in {advance_root_002(node_pool, frame, root, m)} :
          /\ board' = apply_move_002(board, m, 1 - color)
          /\ prev' = board
          /\ node_pool' = ar.pool
          /\ frame' = ar.nodes
          /\ root' = ar.root
    /\ ply' = ply + 1
    /\ pc' = "main"
    /\ UNCHANGED <<bot, evalVars, out, color, last, node_pool_ptr, move_pool,
                   move_pool_ptr, iterations, allow_expand, best_child_global,
                   max_visits_global, timeup, it, late>>

\* a read through a pointer into storage the pool has freed faults
\* (root is read at bot002.cpp:551, 591, 614)
Fault_002 ==
    /\ bot = "bot002" /\ pc \in {"loop", "done", "wait"}
    /\ Dangling(node_pool, frame, root)
    /\ pc' = "crashed"
    /\ UNCHANGED <<bot, evalVars, out, gameVars, poolVars, searchVars>>

Init002 ==
    /\ bot = "bot002"
    /\ \E E \in SUBSET RunRegion : board = Bitboards(RootBoard(E))
    /\ color \in {BLACK_002, WHITE_002}
    /\ pc = "main"
    /\ out = NoMove_002
    /\ prev = board
    /\ last = NoMove
    /\ ply = 0
    /\ node_pool = <<>>
    /\ node_pool_ptr = 0
    /\ move_pool = <<>>
    /\ move_pool_ptr = 0
    /\ root = 0
    /\ iterations = 0
    /\ allow_expand = TRUE
    /\ best_child_global = 0
    /\ max_visits_global = -1
    /\ timeup = FALSE
    /\ it = NoIteration
    /\ late = 0
    /\ frame = NodePool_002
    /\ turn_number = 0
    /\ scratch = ZeroScratch

Next002 ==
    \/ Search_002 \/ Iterate_002 \/ Return_002
    \/ MainOutput_002 \/ MainInput_002 \/ Fault_002
    \/ DeadlinePasses

Spec002 == Init002 /\ [][Next002]_vars

\* the searches of bot001 and bot002
InitPath == Init001 \/ Init002

NextPath ==
    \/ Search_001 \/ Iterate_001 \/ Return_001
    \/ MainOutput \/ MainInput
    \/ Search_002 \/ Iterate_002 \/ Return_002
    \/ MainOutput_002 \/ MainInput_002 \/ Fault_002
    \/ DeadlinePasses

SpecPath == InitPath /\ [][NextPath]_vars

\* the board on which node n was created: the moves from the root down to
\* n, each applied for the side that made it
RECURSIVE PathBoard_001(_, _, _)
PathBoard_001(pool, n, root_state) ==
    IF pool[n].parent = 0 THEN root_state
    ELSE apply_move(PathBoard_001(pool, pool[n].parent, root_state),
                    pool[n].move)

RECURSIVE PathBoard_002(_, _, _)
PathBoard_002(pool, n, root_state) ==
    IF pool[n].parent = 0 THEN root_state
    ELSE apply_move_002(PathBoard_002(pool, pool[n].parent, root_state),
                        pool[n].move, pool[n].player_just_moved)

\* C30: when an iteration of search has selected (and expanded), the working
\* board is the board on which the node it reached was created: the moves
\* of the path from the root, each applied for the side that made it, in
\* bot002 as in bot001
C30_SelectionRebuildsBoard ==
    [][(iterations' = iterations + 1) =>
          /\ bot = "bot001" =>
                it'.state = PathBoard_001(node_pool', it'.node, board)
          /\ bot = "bot002" =>
                /\ it'.selected =
                       PathBoard_002(node_pool, it'.reached, board)
                /\ it'.state = PathBoard_002(node_pool', it'.node, board)
      ]_vars

\* C31: in bot002 every node reachable from the root lies in the storage
\* the pool holds now (a reference returned by allocate keeps designating
\* the same live node across the later allocations), and the pool is reset
\* only when the root is dropped with it, over the searches of a game
C31_PoolKeepsNodes ==
    /\ [](bot = "bot002" /\ root # 0 =>
             \A n \in Subtree(node_pool, root) :
                 ~Dangling(node_pool, frame, n))
    /\ [][(bot = "bot002" /\ frame.offset > 0 /\ frame'.offset = 0) =>
             root' = 0]_vars

(***************************************************************************)
(* SpecFill: the two flood fills of one evaluator call, first from the     *)
(* pieces of color, then from the pieces of the other side, over the same  *)
(* queue (bot021.cpp:339-340, bot012.cpp:353-354).  The boards are the     *)
(* boards whose cells are Obstacles except for the eight cells of         *)
(* FillBlock (the 3x3 corner block without (0,2)), with at                 *)
(* most MaxFillPieces pieces and any mix of Empty cells and Obstacles in   *)
(* it, and three boards without Obstacles.  out is the fill that returned  *)
(* last: its sources, the distances, the queue and its tail.               *)
(***************************************************************************)
MaxFillPieces == 2

FillBlock == {0, 1, 8, 9, 10, 16, 17, 18}

OpenBoards ==
    {init_board, [EmptyGrid EXCEPT ![0] = BLACK],
     [EmptyGrid EXCEPT ![27] = BLACK, ![63] = WHITE]}

InitFill ==
    /\ bot \in {"bot021", "bot012"}
    /\ \/ \E P \in SUBSET FillBlock :
             /\ Cardinality(P) <= MaxFillPieces
             /\ \E g \in [P -> Sides] : \E E \in SUBSET (FillBlock \ P) :
                   board = [i \in Cells |-> IF i \in P THEN g[i]
                                            ELSE IF i \in E THEN EMPTY
                                            ELSE OBSTACLE]
       \/ board \in OpenBoards
    /\ color \in Sides
    /\ pc = "fill_my"
    /\ out = NoCall
    /\ prev = board
    /\ last = NoMove
    /\ ply = 0
    /\ NoSearch

\* the fill of bot021 or of bot012 from the pieces of side
Fill(side) ==
    IF bot = "bot021"
    THEN run_bfs(board, PieceCells(board, side),
                 IF side = color THEN scratch.dist_my ELSE scratch.dist_op,
                 scratch.bfs_queue)
    ELSE perform_fast_bfs(board, PieceCells(board, side),
                 IF side = color THEN scratch.dist_my ELSE scratch.dist_op,
                 scratch.bfs_queue)

Filled(side, r) ==
    /\ out' = [sources |-> PieceCells(board, side), dist |-> r.dist,
               queue |-> r.queue, tail |-> r.tail]
    /\ scratch' = IF side = color
                  THEN [scratch EXCEPT !.dist_my = r.dist,
                                       !.bfs_queue = r.queue,
                                       !.head = IF bot = "bot012" THEN r.tail ELSE @,
                                       !.tail = IF bot = "bot012" THEN r.tail ELSE @]
                  ELSE [scratch EXCEPT !.dist_op = r.dist,
                                       !.bfs_queue = r.queue,
                                       !.head = IF bot = "bot012" THEN r.tail ELSE @,
                                       !.tail = IF bot = "bot012" THEN r.tail ELSE @]
    /\ UNCHANGED <<bot, gameVars, poolVars, searchVars, turn_number>>

\* run_bfs(board.grid, my_pieces, my_count, dist_my), bot021.cpp:339
\* (perform_fast_bfs(grid, my_pieces, dist_my), bot012.cpp:353)
FillMy ==
    /\ pc = "fill_my"
    /\ Filled(color, Fill(color))
    /\ pc' = "fill_op"

\* run_bfs(board.grid, opp_pieces, opp_count, dist_op), bot021.cpp:340
\* (perform_fast_bfs(grid, opp_pieces, dist_op), bot012.cpp:354)
FillOp ==
    /\ pc = "fill_op"
    /\ Filled(-color, Fill(-color))
    /\ pc' = "ret"

NextFill == FillMy \/ FillOp

SpecFill == InitFill /\ [][NextFill]_vars

\* king steps: the cells next to cell a
Adjacent(a, b) ==
    /\ a # b
    /\ Abs(Row(a) - Row(b)) <= 1
    /\ Abs(Col(a) - Col(b)) <= 1

\* the length of the shortest path of king steps to c from a cell of W that
\* passes only through Empty cells, counted from k; 99 when there is none
RECURSIVE PathLength(_, _, _, _)
PathLength(grid, W, c, k) ==
    IF c \in W THEN k
    ELSE LET V == W \cup {n \in Cells : grid[n] = EMPTY
                                        /\ \E a \in W : Adjacent(a, n)}
         IN  IF V = W THEN 99 ELSE PathLength(grid, V, c, k + 1)

\* C32: run_bfs leaves in dist_out, for every Empty cell, the length of the
\* shortest path of king steps from a source that passes only through Empty
\* cells, 99 when there is none; a source has 0, and an Obstacle or a piece
\* that is no source is never entered (it keeps 99 and is not queued)
C32_FloodFillDistances ==
    (bot = "bot021" /\ pc \in {"fill_op", "ret"}) =>
        LET S == SeqToSet(out.sources)
        IN  /\ \A c \in Cells :
                  out.dist[c] = IF c \in S THEN 0
                                ELSE IF board[c] = EMPTY
                                THEN PathLength(board, S, c, 0)
                                ELSE 99
            /\ \A k \in 0 .. (out.tail - 1) :
                  out.queue[k] \in S \/ board[out.queue[k]] = EMPTY

C32_Witness ==
    /\ bot = "bot021" /\ pc = "ret"
    /\ \E c, e \in Cells :
          /\ board[c] = EMPTY /\ out.dist[c] = 3
          /\ board[e] = EMPTY /\ out.dist[e] = 99
    /\ \E c \in Cells : board[c] = color
    /\ \E c \in Cells : board[c] = OBSTACLE

\* C33: in one flood fill, of bot021 and of bot012, every cell is put in
\* the queue at most once, so the tail of the queue never passes the 64
\* entries the queue has
C33_QueueWithinCapacity ==
    (bot \in {"bot021", "bot012"} /\ pc \in {"fill_op", "ret"}) =>
        /\ out.tail <= NUM_SQUARES
        /\ \A j, k \in 0 .. (out.tail - 1) :
              j # k => out.queue[j] # out.queue[k]

C33_Witness ==
    /\ bot = "bot012" /\ pc = "fill_op"
    /\ out.tail = NUM_SQUARES
    /\ {out.queue[k] : k \in 0 .. (out.tail - 1)} = Cells

\* the cells of the grid strictly closer to side than to the other side,
\* minus those strictly closer to the other side, by the length of the
\* shortest path of king steps through Empty cells
Territory(grid, side) ==
    LET my  == SeqToSet(PieceCells(grid, side))
        opp == SeqToSet(PieceCells(grid, -side))
        closer(A, B) ==
            Cardinality({c \in Cells :
                /\ grid[c] = EMPTY
                /\ PathLength(grid, A, c, 0) < PathLength(grid, B, c, 0)})
    IN  closer(my, opp) - closer(opp, my)

\* C34: the Territory component of a call of the evaluator of bot021 and of
\* that of bot001 is the number of Empty cells strictly closer to the
\* evaluated side minus the number strictly closer to the opponent
C34_TerritoryCountsCloserCells ==
    (bot \in {"bot021", "bot001"} /\ pc = "ret" /\ out # NoCall) =>
        out.ret.scores[1] = DblInt(Territory(out.board, out.root_player))

\* C35: calc_mobility of a side is the number of distinct pairs (source,
\* destination) in the legal moves of the side; and a call of the generator
\* that asks for at least one move, with room in the pool, returns no move
\* if and only if the mobility is 0
C35_MobilityCountsSlides ==
    (bot = "cap" /\ it.kind = "mobility") =>
        /\ it.mob = Cardinality({ <<m.x0, m.y0, m.x1, m.y1>> :
                                  m \in LegalMoves(board, color) })
        /\ (out.cap >= 1 /\ out.out_start_idx < MAX_MOVES_POOL) =>
              (out.out_count = 0 <=> it.mob = 0)

C35_Witness ==
    /\ bot = "cap" /\ it.kind = "mobility"
    /\ it.mob >= 4
    /\ Cardinality({c \in Cells : board[c] = color}) = 2
    /\ out.cap >= 1 /\ out.out_count = out.cap

\* the nodes of the tree a search works on, and the children of one
TreeNodes ==
    IF root = 0 THEN {}
    ELSE IF bot = "bot021" THEN 1 .. node_pool_ptr
    ELSE Subtree(node_pool, root)

ChildrenOf(n) ==
    IF bot = "bot021" THEN SeqToSet(Children_021(node_pool, n))
    ELSE SeqToSet(node_pool[n].children)

\* C36: in the trees of bot021 and bot001 the root's player_just_moved is
\* the opponent of the searching side while a search runs, also when the
\* root was kept by advance_root, and every child's player_just_moved is the
\* opposite of its parent's; an iteration adds to every node it passes the
\* score for the side that moved into the node: win_prob when that is the
\* searching side, 1 - win_prob when it is not
C36_PlayerJustMovedAlternates ==
    /\ []((bot \in {"bot021", "bot001"} /\ pc \in {"loop", "done"}) =>
            /\ root # 0 => node_pool[root].player_just_moved = -color
            /\ \A n \in TreeNodes : \A c \in ChildrenOf(n) :
                  node_pool[c].player_just_moved
                      = -node_pool[n].player_just_moved)
    /\ [][(bot \in {"bot021", "bot001"} /\ iterations' = iterations + 1) =>
             \A n \in TreeNodes' :
                 LET before == IF n \in DOMAIN node_pool /\ n \in TreeNodes
                               THEN node_pool[n].wins ELSE 0
                     after  == node_pool'[n].wins
                 IN  after # before =>
                        after - before =
                            IF node_pool'[n].player_just_moved = color
                            THEN it'.win_prob ELSE ONE - it'.win_prob]_vars

C36_Witness ==
    /\ bot = "bot001" /\ pc = "loop" /\ ply >= 2
    /\ root > 1 /\ iterations >= 1
    /\ node_pool[root].parent = 0
    /\ \E c \in SeqToSet(node_pool[root].children) :
          /\ node_pool[c].player_just_moved = color
          /\ node_pool[c].visits >= 1
          /\ node_pool[c].wins = it.win_prob

\* the sum of the visit counts of a list of nodes
RECURSIVE SumVisits(_, _)
SumVisits(pool, list) ==
    IF list = <<>> THEN 0
    ELSE pool[Head(list)].visits + SumVisits(pool, Tail(list))

\* C37: in a fresh search of bot021, after every completed iteration the
\* root's visit count is the number of completed iterations, every other
\* node of the tree has at least one visit more than its children have
\* together, and the wins of every node lie between 0 and its visit count
\* (wins are in units of 1/ONE)
C37_VisitCounts ==
    (bot = "bot021" /\ pc \in {"loop", "done"} /\ root # 0) =>
        /\ node_pool[root].visits = iterations
        /\ \A n \in 1 .. node_pool_ptr :
              /\ n # root =>
                    node_pool[n].visits
                        >= 1 + SumVisits(node_pool, Children_021(node_pool, n))
              /\ 0 <= node_pool[n].wins
              /\ node_pool[n].wins <= node_pool[n].visits * ONE

C37_Witness ==
    /\ bot = "bot021" /\ pc = "loop" /\ iterations >= 4
    /\ \E n \in 2 .. node_pool_ptr :
          /\ node_pool[n].first_child # 0
          /\ 0 < node_pool[n].wins
          /\ node_pool[n].wins < node_pool[n].visits * ONE
    /\ \E n \in 2 .. node_pool_ptr :
          node_pool[n].visits
              > 1 + SumVisits(node_pool, Children_021(node_pool, n))

(***************************************************************************)
(* SpecGen002: generate_moves of bot002 and get_legal_moves of bot001 as   *)
(* pure functions of (board, side), on the same position.  The boards are  *)
(* those of SpecGen, the boards that are open in at most MaxOpen cells     *)
(* of the block around the seam between the last cell of a row of bits and *)
(* the first cell of the next (bits 6, 7, 8, 9 and 14, 15, 16, 17), where  *)
(* an unmasked shift by 1, 7 or 9 would step from one edge of the board to *)
(* the other, and the open boards of SpecFill with their long slides.      *)
(***************************************************************************)
SeamBlock == {6, 7, 8, 9, 14, 15, 16, 17}

SeamSets == {S \in SUBSET SeamBlock : Cardinality(S) <= MaxOpen}

InitGen002 ==
    /\ bot = "gen002"
    /\ \/ \E S \in OpenSets \cup SeamSets : \E f \in [S -> {EMPTY, BLACK, WHITE}] :
             board = GenBoard(S, f)
       \/ board \in OpenBoards
    /\ color \in {BLACK_002, WHITE_002}
    /\ pc = "input"
    /\ out = <<>>
    /\ prev = EmptyGrid
    /\ last = NoMove
    /\ ply = 0
    /\ NoSearch

\* the two generators on the position: bot002.cpp:152-201 on the bitboards,
\* bot001.cpp:71-117 on the grid
Gen_002 ==
    /\ bot = "gen002" /\ pc = "input"
    /\ out' = [bits |-> generate_moves(Bitboards(board), color),
               array |-> get_legal_moves_001(board, GridSide(color))]
    /\ pc' = "moves_002"
    /\ UNCHANGED <<bot, evalVars, gameVars, poolVars, searchVars>>

NextGen002 == Gen_002

SpecGen002 == InitGen002 /\ [][NextGen002]_vars

\* C38: for every board and side generate_moves of bot002 returns the same
\* set of (source, destination, arrow) triples as get_legal_moves of bot001
\* on the equivalent grid, and no step of a slide in it leaves the board
\* on one edge and enters it on the other: the queen's path and the
\* arrow's path are straight lines of the grid
C38_BitboardGeneratorAgrees ==
    (bot = "gen002" /\ pc = "moves_002") =>
        /\ out.bits = {IdxMove(l) : l \in SeqToSet(out.array)}
        /\ \A m \in out.bits :
              /\ Slides(board, m.src, m.dest, -1)
              /\ Slides(board, m.dest, m.arrow, m.src)

C38_Witness ==
    /\ bot = "gen002" /\ pc = "moves_002"
    /\ board[7] = GridSide(color) /\ board[8] = EMPTY /\ board[6] = EMPTY
    /\ Move_002(7, 6, 7) \in out.bits
    /\ \A m \in out.bits : m.dest # 8 /\ m.arrow # 8
====
